---- MODULE Spec2Model ----
(***************************************************************************)
(* Memory store and context engine of misa-core (core/src/memory/mod.rs),  *)
(* with the encryption manager it calls (core/src/security/mod.rs) and the *)
(* default memory configuration (core/src/kernel/mod.rs).                  *)
(*                                                                         *)
(* Timestamps are integers counting days.  Item ids are integers standing  *)
(* for the opaque id strings.  The SQLite table `memories` is the function *)
(* db from the ids present to their rows; the enum columns hold the text   *)
(* that serde_json::to_string writes, which is the variant name inside     *)
(* double quotes.                                                          *)
(***************************************************************************)
EXTENDS Integers, Sequences, FiniteSets, TLC

\* ------------------------------------------------------------------ bounds
NumIds == 2
MaxNow == 1
MaxShortTermStores == 1
MaxGets == 2
MaxPushes == 52
MaxRingStores == 1
FreeImportance == 2
MaxBatch == 11
MaxPredictionBatch == 2
MaxClones == 1

\* --------------------------------------------------------- program constants
ShortTermLimit == 50
DefaultRetentionDays == 365
MinAccessBatch == 10
MinVolumeDays == 7
AnomalyThreshold == 2
HighSeverityBound == 3
MinutesPerDay == 1440
MinutesPerHour == 60
Scale == 10000
RecencyWeight == 4000
FrequencyWeight == 3000
ContextWeight == 3000
DecayPerHour == 9048
GrowthPerHour == 11052
TaskScore == 5000
ApplicationScore == 3000
TagScore == 2000
RelevantAbove == 5000
ConfidenceThreshold == 6000
RecentHours == 24
MaxCount == 2147483647
CountUnit == 268435456
U32Units == 16
MorningConfidence == 7000
AfternoonConfidence == 6000
EveningConfidence == 8000
SupportingMemories == 3
DetectionThreshold == 7000
BehavioralConfidence == 8000
ShortWord == 3

Ids == 1..NumIds
Keys == {"k1", "k2"}
Nonces == {"n1"}
MemoryTypes == {"ShortTerm", "MediumTerm", "LongTerm", "Permanent"}
Importances == {"Low", "Medium", "High", "Critical"}
NoKey == "none"
NoGet == [id |-> 0]
Idle == [op |-> "none"]
KeyIds == {"test-key", "memory-1"}
Payloads == {<<>>, <<33>>, <<72, 105>>}
CryptoNonces == {"n1", "n2"}
Tasks == {"t1", "t2"}
Free == "free"
IdleTask == [pc |-> "idle"]

VARIABLES
    config,         \* MemoryManager.config
    master_key,     \* EncryptionManager.master_key
    initialized,    \* MemoryManager::initialize has run
    context_sources,\* ContextEngine.context_sources: the sources held, one per key
    now,            \* chrono::Utc::now(), in days
    db,             \* table memories: id -> row
    ctx,            \* ContextEngine.active_context
    getPc,          \* get_memory in flight between its SELECT and its UPDATE
    lastOp,         \* the operation that completed last, with what it returned
    stored0,        \* history: id -> the item as passed to the store that inserted the row
    getsDone,       \* history: id -> number of access-statistics updates applied to the row
    pushLog,        \* history: every item appended to short_term_memory, in order
    tasks,          \* each concurrent caller of the context engine: where it is in its call
    active_context_lock, \* the writer holding ContextEngine.active_context, or Free
    batch,          \* the memories handed to the analytics components
    last_sync,      \* CloudSync.last_sync
    spawned,        \* the background tasks spawned and running
    db_pool_closed, \* MemoryDatabase.pool has been closed
    clones          \* the context engines of the clones of the MemoryManager

vars == <<config, master_key, initialized, context_sources, now, db, ctx,
          getPc, lastOp, stored0, getsDone, pushLog, tasks, active_context_lock,
          batch, last_sync, spawned, db_pool_closed, clones>>

\* ------------------------------------------------------------ configuration
DefaultMemoryConfig ==
    [retention_days |-> DefaultRetentionDays, compression_enabled |-> TRUE,
     encryption_enabled |-> TRUE]

Configs ==
    {DefaultMemoryConfig,
     [retention_days |-> 30, compression_enabled |-> TRUE, encryption_enabled |-> FALSE]}

\* ------------------------------------------------------------ serde_json
\* serde_json::to_string of a unit enum variant: the name in double quotes
to_string(v) == "\"" \o v \o "\""

\* serde_json::from_str of such a column
from_str(s, variants) == CHOOSE v \in variants : to_string(v) = s

\* the tag lists that items carry
TagLists == {<<>>, <<"work">>, <<"urgent">>, <<"work", "urgent">>}

RECURSIVE Joined(_)
Joined(tags) ==
    IF tags = <<>> THEN ""
    ELSE IF Len(tags) = 1 THEN to_string(tags[1])
    ELSE to_string(tags[1]) \o "," \o Joined(Tail(tags))

\* serde_json::to_string(&memory.tags): a JSON array of strings
tags_to_string(tags) == "[" \o Joined(tags) \o "]"

\* serde_json::from_str of the tags column
tags_from_str(s) == CHOOSE tags \in TagLists : tags_to_string(tags) = s

\* ------------------------------------------------------------ encryption
\* the two halves of the AES-256-GCM output
Ciphertext(key, nonce, data) == <<"aes256gcm", key, nonce, data>>

Tag(key, nonce, data) == <<"tag", key, nonce, data>>

\* EncryptionManager::encrypt: an error when the master key is missing
encrypt(key, nonce, data, key_id) ==
    IF key = NoKey
    THEN [ok |-> FALSE, err |-> "Encryption"]
    ELSE [ok |-> TRUE,
          data |-> [ciphertext |-> Ciphertext(key, nonce, data),
                    nonce |-> nonce, key_id |-> key_id,
                    algorithm |-> "AES-256-GCM",
                    tag |-> Tag(key, nonce, data)]]

\* Aes256Gcm::decrypt of the message ciphertext || tag: the plaintext when the
\* message was sealed under this key and nonce, an error otherwise
AeadOpen(key, nonce, ciphertext, tag) ==
    IF /\ Len(ciphertext) = 4
       /\ ciphertext = Ciphertext(key, nonce, ciphertext[4])
       /\ tag = Tag(key, nonce, ciphertext[4])
    THEN [ok |-> TRUE, plaintext |-> ciphertext[4]]
    ELSE [ok |-> FALSE, err |-> "Encryption"]

\* a decrypt that hands the cipher the ciphertext without its tag
decrypt_NoTag(key, encrypted_data) ==
    IF key = NoKey
    THEN [ok |-> FALSE, err |-> "Encryption"]
    ELSE IF encrypted_data.algorithm # "AES-256-GCM"
    THEN [ok |-> FALSE, err |-> "Encryption"]
    ELSE AeadOpen(key, encrypted_data.nonce, encrypted_data.ciphertext, <<>>)

\* a decrypt that does not look at the algorithm field
decrypt_AnyAlgorithm(key, encrypted_data) ==
    IF key = NoKey
    THEN [ok |-> FALSE, err |-> "Encryption"]
    ELSE AeadOpen(key, encrypted_data.nonce, encrypted_data.ciphertext,
                  encrypted_data.tag)

\* EncryptionManager::decrypt: the key check, then the algorithm check, then
\* the cipher on ciphertext || tag
decrypt(key, encrypted_data) ==
    IF key = NoKey
    THEN [ok |-> FALSE, err |-> "Encryption"]
    ELSE IF encrypted_data.algorithm # "AES-256-GCM"
    THEN [ok |-> FALSE, err |-> "Encryption"]
    ELSE AeadOpen(key, encrypted_data.nonce, encrypted_data.ciphertext,
                  encrypted_data.tag)

\* MemoryManager::encrypt_memory
encrypt_memory(key, nonce, memory) == encrypt(key, nonce, memory.content, memory.id)

\* MemoryManager::decrypt_memory returns the item as it is
decrypt_memory(memory) == memory

\* ------------------------------------------------------------ the table
NoBlob == <<>>

\* the row written by insert_memory_to_db
RowOf(memory, encrypted_data) ==
    [id |-> memory.id,
     content |-> memory.content,
     memory_type |-> to_string(memory.memory_type),
     importance |-> to_string(memory.importance),
     tags |-> tags_to_string(memory.tags),
     created_at |-> memory.created_at,
     last_accessed |-> memory.last_accessed,
     access_count |-> memory.access_count,
     encrypted |-> memory.encrypted,
     encrypted_data |-> IF encrypted_data.ok THEN encrypted_data.data.ciphertext ELSE NoBlob]

\* the MemoryItem built from a row by get_memory_from_db (the cast of
\* access_count to u32 changes no count below 2^32)
ItemOf(row) ==
    [id |-> row.id,
     content |-> row.content,
     memory_type |-> from_str(row.memory_type, MemoryTypes),
     importance |-> from_str(row.importance, Importances),
     tags |-> tags_from_str(row.tags),
     created_at |-> row.created_at,
     last_accessed |-> row.last_accessed,
     access_count |-> row.access_count,
     encrypted |-> row.encrypted]

\* a lookup that answers a missing row with an empty item instead of None
get_memory_from_db_OrDefault(table, memory_id) ==
    IF memory_id \in DOMAIN table
    THEN [found |-> TRUE, memory |-> ItemOf(table[memory_id])]
    ELSE [found |-> TRUE,
          memory |-> [id |-> memory_id, content |-> "", memory_type |-> "ShortTerm",
                      importance |-> "Low", tags |-> <<>>, created_at |-> 0,
                      last_accessed |-> 0,
                      access_count |-> 0, encrypted |-> FALSE]]

\* get_memory_from_db: SELECT ... WHERE id = ?, fetch_optional
get_memory_from_db(table, memory_id) ==
    IF memory_id \in DOMAIN table
    THEN [found |-> TRUE, memory |-> ItemOf(table[memory_id])]
    ELSE [found |-> FALSE]

\* DELETE FROM memories WHERE created_at < ? AND memory_type != 'Permanent'
OldMemories(table, cutoff_date) ==
    {i \in DOMAIN table :
        table[i].created_at < cutoff_date /\ table[i].memory_type # "Permanent"}

\* an update that writes the counter of a first read
AccessStatsUpdated_CountOne(table, memory_id, t) ==
    [i \in DOMAIN table |->
        IF i = memory_id
        THEN [table[i] EXCEPT !.last_accessed = t, !.access_count = 1]
        ELSE table[i]]

\* an update that stamps last_accessed and forgets the counter
AccessStatsUpdated_NoCount(table, memory_id, t) ==
    [i \in DOMAIN table |->
        IF i = memory_id THEN [table[i] EXCEPT !.last_accessed = t] ELSE table[i]]

\* UPDATE memories SET last_accessed = ?, access_count = access_count + 1 WHERE id = ?
AccessStatsUpdated(table, memory_id, t) ==
    [i \in DOMAIN table |->
        IF i = memory_id
        THEN [table[i] EXCEPT !.last_accessed = t, !.access_count = @ + 1]
        ELSE table[i]]

\* ------------------------------------------------------------ statistics
\* SUM(CASE WHEN memory_type = literal THEN 1 ELSE 0 END)
TierCount(table, literal) ==
    Cardinality({i \in DOMAIN table : table[i].memory_type = literal})

RECURSIVE SumAccessCount(_, _)
SumAccessCount(table, ids) ==
    IF ids = {} THEN 0
    ELSE LET i == CHOOSE j \in ids : TRUE
         IN  table[i].access_count + SumAccessCount(table, ids \ {i})

\* get_memory_stats: the literals of its SELECT are written without the
\* quotes the column holds; the average is kept as the sum over the count,
\* MAX and MIN of an empty table are NULL
get_memory_stats(table) ==
    LET created == {table[i].created_at : i \in DOMAIN table}
    IN  [total_memories |-> Cardinality(DOMAIN table),
         short_term_count |-> TierCount(table, "ShortTerm"),
         medium_term_count |-> TierCount(table, "MediumTerm"),
         long_term_count |-> TierCount(table, "LongTerm"),
         permanent_count |-> TierCount(table, "Permanent"),
         avg_access_count |-> IF DOMAIN table = {} THEN <<0, 1>>
                              ELSE <<SumAccessCount(table, DOMAIN table),
                                     Cardinality(DOMAIN table)>>,
         newest_memory |-> IF created = {} THEN "None"
                           ELSE CHOOSE c \in created : \A d \in created : d <= c,
         oldest_memory |-> IF created = {} THEN "None"
                           ELSE CHOOSE c \in created : \A d \in created : c <= d]

\* ------------------------------------------------------------ search
\* the parameter that build_sql binds for a tag: format!("$[?]", tag) has no
\* placeholder for the tag
TagPath(tag) == "$[?]"

\* SearchQuery::build_sql: the WHERE conditions in the order they are pushed,
\* each with its bound parameter (text, content_type, importance and
\* date_range are None in the queries made here)
build_sql(query) ==
    (IF query.memory_type # "None"
     THEN <<[kind |-> "equals", column |-> "memory_type",
             param |-> to_string(query.memory_type)]>>
     ELSE <<>>)
    \o [j \in 1..Len(query.tags) |->
           [kind |-> "json_extract_not_null", column |-> "tags",
            param |-> TagPath(query.tags[j])]]

\* SQLite JSON_EXTRACT(json, path) on an array of strings: the element at a
\* path $[k], NULL past the end, an error for a path it cannot parse
json_extract(json, path) ==
    IF path \in {"$[0]", "$[1]"}
    THEN LET arr == tags_from_str(json)
             k == IF path = "$[0]" THEN 1 ELSE 2
         IN  [ok |-> TRUE, value |-> IF k <= Len(arr) THEN arr[k] ELSE "NULL"]
    ELSE [ok |-> FALSE]

\* one condition of the WHERE clause on one row
Condition(row, c) ==
    IF c.kind = "equals"
    THEN (IF row[c.column] = c.param THEN "true" ELSE "false")
    ELSE LET v == json_extract(row[c.column], c.param)
         IN  IF ~v.ok THEN "error"
             ELSE IF v.value # "NULL" THEN "true" ELSE "false"

\* the conditions joined with AND, evaluated from the left until one is not true
RECURSIVE Where(_, _)
Where(row, conditions) ==
    IF conditions = <<>> THEN "true"
    ELSE LET v == Condition(row, Head(conditions))
         IN  IF v = "true" THEN Where(row, Tail(conditions)) ELSE v

\* search_memories_in_db: fetch_all of the built statement.  The result is
\* kept as the set of items: ORDER BY orders it and LIMIT 100 OFFSET 0 cuts
\* nothing from a table of NumIds rows.
search_memories_in_db(table, query) ==
    LET conditions == build_sql(query)
    IN  IF \E i \in DOMAIN table : Where(table[i], conditions) = "error"
        THEN [ok |-> FALSE, err |-> "Database"]
        ELSE [ok |-> TRUE,
              memories |-> {ItemOf(table[i]) :
                              i \in {j \in DOMAIN table :
                                        Where(table[j], conditions) = "true"}}]

\* MemoryManager::search_memories
search_memories(table, query) ==
    LET found == search_memories_in_db(table, query)
    IN  IF found.ok
        THEN [ok |-> TRUE,
              memories |-> {IF m.encrypted THEN decrypt_memory(m) ELSE m :
                              m \in found.memories}]
        ELSE found

\* ------------------------------------------------------------ context
ImportanceRank(imp) ==
    CASE imp = "Low" -> 0 [] imp = "Medium" -> 1 [] imp = "High" -> 2 [] OTHER -> 3

\* a push that never evicts
Pushed_NoEvict(stm, memory) == Append(stm, memory)

\* a push that evicts the oldest of the least important items
Pushed_ByImportance(stm, memory) ==
    LET appended == Append(stm, memory)
        victim == CHOOSE j \in 1..Len(appended) :
                    /\ \A k \in 1..Len(appended) :
                          ImportanceRank(appended[j].importance)
                            <= ImportanceRank(appended[k].importance)
                    /\ \A k \in 1..(j - 1) :
                          ImportanceRank(appended[k].importance)
                            > ImportanceRank(appended[j].importance)
    IN  IF Len(appended) > ShortTermLimit
        THEN SubSeq(appended, 1, victim - 1) \o SubSeq(appended, victim + 1, Len(appended))
        ELSE appended

\* ContextEngine::add_to_short_term_memory on the short_term_memory vector
Pushed(stm, memory) ==
    LET appended == Append(stm, memory)
    IN  IF Len(appended) > ShortTermLimit THEN Tail(appended) ELSE appended

\* the vector after `if len() > 50 { remove(0) }`
Evicted(stm) == IF Len(stm) > ShortTermLimit THEN Tail(stm) ELSE stm

\* an insert that keeps the entry already under the key
Inserted_KeepsOld(sources, source) == sources \cup {source}

\* HashMap::insert(source.source_id.clone(), source): the entry under the key
\* is replaced
Inserted(sources, source) ==
    {e \in sources : e.source_id # source.source_id} \cup {source}

\* the source that ContextEngine::initialize registers
SystemSource(t) ==
    [source_id |-> "system", source_type |-> "System", name |-> "System Monitor",
     enabled |-> TRUE, priority |-> 10, last_data |-> "None", last_updated |-> t]

\* ------------------------------------------------------------ inputs
\* the sources passed to update_context
ContextSources ==
    {[source_id |-> "calendar", source_type |-> "Calendar", name |-> "Calendar",
      enabled |-> TRUE, priority |-> p, last_data |-> "None", last_updated |-> 0] :
        p \in {1, 2}}

\* what a caller passes along with each tier: the flag and the count are the
\* caller's, store_memory copies them; age 1 is created one day before the
\* day that is retention_days before day 0, age -1 one day after it
Shapes ==
    {[memory_type |-> "ShortTerm",  content |-> "Buy milk", encrypted |-> FALSE, access_count |-> 0, age |-> 1],
     [memory_type |-> "ShortTerm",  content |-> "Buy milk", encrypted |-> FALSE, access_count |-> 0, age |-> -1],
     [memory_type |-> "MediumTerm", content |-> "report",   encrypted |-> FALSE, access_count |-> 0, age |-> 1],
     [memory_type |-> "LongTerm",   content |-> "report",   encrypted |-> TRUE,  access_count |-> 7, age |-> -1],
     [memory_type |-> "Permanent",  content |-> "Buy milk", encrypted |-> FALSE, access_count |-> 0, age |-> 1]}

\* the items passed to store_memory under retention r
MemoryItems(r) ==
    {[id |-> i, content |-> sh.content, memory_type |-> sh.memory_type,
      importance |-> "Medium", tags |-> <<>>, created_at |-> 0 - r - sh.age,
      last_accessed |-> 0 - r - sh.age,
      access_count |-> sh.access_count, encrypted |-> sh.encrypted] :
        i \in Ids, sh \in Shapes}

\* tagged items under retention r, with the timestamps the caller chose: one
\* created before the retention window, one created a day after day 0, one
\* whose last_accessed is a day before its created_at
TaggedItems(r) ==
    UNION {{[id |-> i, content |-> "report", memory_type |-> "MediumTerm",
             importance |-> "Medium", tags |-> <<"work", "urgent">>,
             created_at |-> 0 - r - 1, last_accessed |-> 0 - r - 1,
             access_count |-> 0, encrypted |-> FALSE],
            [id |-> i, content |-> "Buy milk", memory_type |-> "LongTerm",
             importance |-> "Medium", tags |-> <<"work">>,
             created_at |-> 1, last_accessed |-> 1,
             access_count |-> 7, encrypted |-> TRUE],
            [id |-> i, content |-> "report", memory_type |-> "Permanent",
             importance |-> "Medium", tags |-> <<>>,
             created_at |-> 0 - r - 1, last_accessed |-> 0 - r - 2,
             access_count |-> 0, encrypted |-> FALSE]} : i \in Ids}

\* the queries passed to search_memories, built by SearchQuery::new with a
\* memory_type and tags set
SearchQueries ==
    {[memory_type |-> mt, tags |-> tags] :
        mt \in {"None", "LongTerm"}, tags \in {<<>>, <<"work">>, <<"work", "urgent">>}}

\* the n-th item of a run of short-term pushes
RingItem(n, imp) ==
    [id |-> n, content |-> "Buy milk", memory_type |-> "ShortTerm",
     importance |-> imp, tags |-> <<>>, created_at |-> 0, last_accessed |-> 0,
     access_count |-> 0, encrypted |-> FALSE]

RingImportances(n) == IF n <= FreeImportance THEN {"Low", "Critical"} ELSE {"Low"}

\* ------------------------------------------------------------ initial state
\* MemoryManager::new with a SecurityManager::new: no master key, an empty
\* table, ContextState::default()
Init ==
    /\ config \in Configs
    /\ master_key = NoKey
    /\ initialized = FALSE
    /\ context_sources = {}
    /\ now = 0
    /\ db = <<>>
    /\ ctx = [current_task |-> "None", active_applications |-> <<>>,
              short_term_memory |-> <<>>, last_updated |-> 0]
    /\ getPc = NoGet
    /\ lastOp = Idle
    /\ stored0 = <<>>
    /\ getsDone = <<>>
    /\ pushLog = <<>>
    /\ tasks = [t \in Tasks |-> IdleTask]
    /\ active_context_lock = Free
    /\ batch = <<>>
    /\ last_sync = 0
    /\ spawned = {}
    /\ db_pool_closed = FALSE
    /\ clones = <<>>

\* ------------------------------------------------------------ operations
\* SecurityManager::initialize -> EncryptionManager::initialize
SecurityInitialize ==
    /\ master_key = NoKey
    /\ \E k \in Keys : master_key' = k
    /\ UNCHANGED <<clones, batch, last_sync, spawned, db_pool_closed,
                   tasks, active_context_lock, config, initialized, context_sources, now, db, ctx, getPc, lastOp,
                   stored0, getsDone, pushLog>>

\* MemoryManager::start_background_tasks: the tasks spawned, each with the
\* day of its next tick (an interval ticks at once, then every period; cloud
\* sync is enabled by MemoryManager::new and ticks every 30 minutes)
BackgroundTasks(t) == {[task |-> "prune", due |-> t], [task |-> "sync", due |-> t]}

\* MemoryManager::initialize: registers the "system" source and spawns the
\* background tasks.  Callers use the manager after it
\* (MisaKernel::initialize, test_memory_management).
Initialize ==
    /\ ~initialized
    /\ initialized' = TRUE
    /\ context_sources' = Inserted(context_sources, SystemSource(now))
    /\ spawned' = BackgroundTasks(now)
    /\ UNCHANGED <<clones, batch, last_sync, db_pool_closed,
                   tasks, active_context_lock, config, master_key, now, db, ctx, getPc, lastOp, stored0, getsDone,
                   pushLog>>

\* the clock advances by a day
Tick ==
    /\ now < MaxNow
    /\ now' = now + 1
    /\ UNCHANGED <<clones, batch, last_sync, spawned, db_pool_closed,
                   tasks, active_context_lock, config, master_key, initialized, context_sources, db, ctx, getPc,
                   lastOp, stored0, getsDone, pushLog>>

\* a store that forwards every item
ForwardsToContext_Always(memory) == TRUE

\* store_memory forwards the item when matches!(memory.memory_type, MemoryType::ShortTerm)
ForwardsToContext(memory) == memory.memory_type = "ShortTerm"

\* ContextEngine::add_to_short_term_memory
AddToShortTermMemory(memory) ==
    /\ ctx' = [ctx EXCEPT !.short_term_memory = Pushed(@, memory)]
    /\ pushLog' = Append(pushLog, memory)

\* a store that forwards the item to the context engine before it encrypts
\* and inserts
StoreEffect_PushFirst(memory, nonce) ==
    LET enc == IF config.encryption_enabled
               THEN encrypt_memory(master_key, nonce, memory)
               ELSE [ok |-> FALSE, err |-> "None"]
    IN  /\ IF ForwardsToContext(memory)
           THEN AddToShortTermMemory(memory)
           ELSE UNCHANGED <<ctx, pushLog>>
        /\ IF config.encryption_enabled /\ ~enc.ok
           THEN /\ lastOp' = [op |-> "store", id |-> memory.id, ok |-> FALSE,
                              err |-> enc.err]
                /\ UNCHANGED <<db, stored0, getsDone>>
           ELSE IF memory.id \in DOMAIN db
           THEN /\ lastOp' = [op |-> "store", id |-> memory.id, ok |-> FALSE,
                              err |-> "Database"]
                /\ UNCHANGED <<db, stored0, getsDone>>
           ELSE /\ db' = (memory.id :> RowOf(memory, enc)) @@ db
                /\ stored0' = (memory.id :> memory) @@ stored0
                /\ getsDone' = (memory.id :> 0) @@ getsDone
                /\ lastOp' = [op |-> "store", id |-> memory.id, ok |-> TRUE,
                              returned |-> memory.id]

\* MemoryManager::store_memory
StoreEffect(memory, nonce) ==
    LET enc == IF config.encryption_enabled
               THEN encrypt_memory(master_key, nonce, memory)
               ELSE [ok |-> FALSE, err |-> "None"]
    IN  IF config.encryption_enabled /\ ~enc.ok
        THEN /\ lastOp' = [op |-> "store", id |-> memory.id, ok |-> FALSE, err |-> enc.err]
             /\ UNCHANGED <<db, ctx, stored0, getsDone, pushLog>>
        ELSE IF memory.id \in DOMAIN db
        THEN /\ lastOp' = [op |-> "store", id |-> memory.id, ok |-> FALSE, err |-> "Database"]
             /\ UNCHANGED <<db, ctx, stored0, getsDone, pushLog>>
        ELSE /\ db' = (memory.id :> RowOf(memory, enc)) @@ db
             /\ stored0' = (memory.id :> memory) @@ stored0
             /\ getsDone' = (memory.id :> 0) @@ getsDone
             /\ IF ForwardsToContext(memory)
                THEN AddToShortTermMemory(memory)
                ELSE UNCHANGED <<ctx, pushLog>>
             /\ lastOp' = [op |-> "store", id |-> memory.id, ok |-> TRUE,
                           returned |-> memory.id]

StoreMemory ==
    /\ initialized
    /\ \E memory \in MemoryItems(config.retention_days), nonce \in Nonces :
          /\ memory.memory_type = "ShortTerm" => Len(pushLog) < MaxShortTermStores
          /\ StoreEffect(memory, nonce)
    /\ UNCHANGED <<clones, batch, last_sync, spawned, db_pool_closed,
                   tasks, active_context_lock, config, master_key, initialized, context_sources, now, getPc>>

\* MemoryManager::get_memory up to and including get_memory_from_db
GetRead ==
    /\ initialized
    /\ getPc = NoGet
    /\ \E memory_id \in Ids :
          LET row == get_memory_from_db(db, memory_id)
              present == memory_id \in DOMAIN db
          IN  /\ present => getsDone[memory_id] < MaxGets
              /\ IF row.found
                 THEN /\ getPc' = [id |-> memory_id, present |-> present,
                                   memory |-> IF row.memory.encrypted
                                              THEN decrypt_memory(row.memory)
                                              ELSE row.memory]
                      /\ UNCHANGED lastOp
                 ELSE /\ lastOp' = [op |-> "get", id |-> memory_id, present |-> present,
                                    found |-> FALSE]
                      /\ UNCHANGED getPc
    /\ UNCHANGED <<clones, batch, last_sync, spawned, db_pool_closed,
                   tasks, active_context_lock, config, master_key, initialized, context_sources, now, db, ctx,
                   stored0, getsDone, pushLog>>

\* MemoryManager::get_memory from update_memory_access_stats to its return
GetUpdate ==
    /\ getPc # NoGet
    /\ db' = AccessStatsUpdated(db, getPc.id, now)
    /\ getsDone' = [i \in DOMAIN getsDone |->
                      IF i = getPc.id THEN getsDone[i] + 1 ELSE getsDone[i]]
    /\ lastOp' = [op |-> "get", id |-> getPc.id, present |-> getPc.present,
                  found |-> TRUE, memory |-> getPc.memory]
    /\ getPc' = NoGet
    /\ UNCHANGED <<clones, batch, last_sync, spawned, db_pool_closed,
                   tasks, active_context_lock, config, master_key, initialized, context_sources, now, ctx,
                   stored0, pushLog>>

\* a prune that also drops the deleted items from short_term_memory
PruneMemories_Evicting ==
    LET cutoff_date == now - config.retention_days
        old == OldMemories(db, cutoff_date)
    IN  /\ initialized
        /\ db' = [i \in DOMAIN db \ old |-> db[i]]
        /\ lastOp' = [op |-> "prune", cutoff |-> cutoff_date,
                      deleted |-> {stored0[i] : i \in old},
                      deleted_count |-> Cardinality(old)]
        /\ stored0' = [i \in DOMAIN db \ old |-> stored0[i]]
        /\ getsDone' = [i \in DOMAIN db \ old |-> getsDone[i]]
        /\ ctx' = [ctx EXCEPT !.short_term_memory =
                                 SelectSeq(@, LAMBDA m : m.id \notin old)]
        /\ UNCHANGED <<clones, batch, last_sync, spawned, db_pool_closed,
                       tasks, active_context_lock, config, master_key, initialized, context_sources, now, getPc,
                       pushLog>>

\* MemoryManager::prune_memories
PruneMemories ==
    LET cutoff_date == now - config.retention_days
        old == OldMemories(db, cutoff_date)
    IN  /\ initialized
        /\ db' = [i \in DOMAIN db \ old |-> db[i]]
        /\ lastOp' = [op |-> "prune", cutoff |-> cutoff_date,
                      deleted |-> {stored0[i] : i \in old},
                      deleted_count |-> Cardinality(old)]
        /\ stored0' = [i \in DOMAIN db \ old |-> stored0[i]]
        /\ getsDone' = [i \in DOMAIN db \ old |-> getsDone[i]]
        /\ UNCHANGED <<clones, batch, last_sync, spawned, db_pool_closed,
                       tasks, active_context_lock, config, master_key, initialized, context_sources, now, ctx, getPc,
                       pushLog>>

Next ==
    \/ SecurityInitialize
    \/ Initialize
    \/ Tick
    \/ StoreMemory
    \/ GetRead
    \/ GetUpdate
    \/ PruneMemories

Spec == Init /\ [][Next]_vars

\* ------------------------------------------------------------ short-term runs
\* ContextEngine::add_to_short_term_memory called with the next item of a run
PushShortTerm ==
    /\ initialized
    /\ Len(pushLog) < MaxPushes
    /\ \E imp \in RingImportances(Len(pushLog) + 1) :
          /\ AddToShortTermMemory(RingItem(Len(pushLog) + 1, imp))
          /\ lastOp' = [op |-> "push", id |-> Len(pushLog) + 1]
    /\ UNCHANGED <<clones, batch, last_sync, spawned, db_pool_closed,
                   tasks, active_context_lock, config, master_key, initialized, context_sources, now, db, getPc,
                   stored0, getsDone>>

\* MemoryManager::store_memory called with the next item of a run
StoreShortTerm ==
    /\ initialized
    /\ Len(pushLog) < MaxPushes
    /\ Cardinality(DOMAIN db) < MaxRingStores
    /\ \E imp \in RingImportances(Len(pushLog) + 1), nonce \in Nonces :
          StoreEffect(RingItem(Len(pushLog) + 1, imp), nonce)
    /\ UNCHANGED <<clones, batch, last_sync, spawned, db_pool_closed,
                   tasks, active_context_lock, config, master_key, initialized, context_sources, now, getPc>>

NextRing ==
    \/ SecurityInitialize
    \/ Initialize
    \/ PushShortTerm
    \/ StoreShortTerm

SpecRing == Init /\ [][NextRing]_vars

\* ------------------------------------------------------------ records
\* MemoryManager::store_memory of a tagged item
StoreTagged ==
    /\ initialized
    /\ \E memory \in TaggedItems(config.retention_days), nonce \in Nonces :
          StoreEffect(memory, nonce)
    /\ UNCHANGED <<clones, batch, last_sync, spawned, db_pool_closed,
                   tasks, active_context_lock, config, master_key, initialized,
                   context_sources, now, getPc>>

\* a search that counts a read of every item it returns
SearchMemories_Counting ==
    /\ initialized
    /\ \E query \in SearchQueries :
          LET result == search_memories(db, query)
              hits == IF result.ok THEN {m.id : m \in result.memories} ELSE {}
          IN  /\ lastOp' = [op |-> "search", query |-> query, result |-> result]
              /\ db' = [i \in DOMAIN db |->
                          IF i \in hits /\ db[i].access_count < MaxGets
                          THEN [db[i] EXCEPT !.last_accessed = now, !.access_count = @ + 1]
                          ELSE db[i]]
    /\ UNCHANGED <<clones, batch, last_sync, spawned, db_pool_closed,
                   tasks, active_context_lock, config, master_key, initialized,
                   context_sources, now, ctx, getPc, stored0, getsDone, pushLog>>

\* MemoryManager::search_memories
SearchMemories ==
    /\ initialized
    /\ \E query \in SearchQueries :
          lastOp' = [op |-> "search", query |-> query,
                     result |-> search_memories(db, query)]
    /\ UNCHANGED <<clones, batch, last_sync, spawned, db_pool_closed,
                   tasks, active_context_lock, config, master_key, initialized,
                   context_sources, now, db, ctx, getPc, stored0, getsDone, pushLog>>

\* MemoryManager::get_memory_stats
GetMemoryStats ==
    /\ initialized
    /\ lastOp' = [op |-> "stats", stats |-> get_memory_stats(db)]
    /\ UNCHANGED <<clones, batch, last_sync, spawned, db_pool_closed,
                   tasks, active_context_lock, config, master_key, initialized,
                   context_sources, now, db, ctx, getPc, stored0, getsDone, pushLog>>

NextRecords ==
    \/ SecurityInitialize
    \/ Initialize
    \/ StoreTagged
    \/ GetRead
    \/ GetUpdate
    \/ PruneMemories
    \/ SearchMemories
    \/ GetMemoryStats

SpecRecords == Init /\ [][NextRecords]_vars

\* ------------------------------------------------------------ concurrent callers
\* Each task is a caller of the context engine.  The write guard on
\* active_context is held from PushLock to PushEvict; update_context takes
\* the guard on context_sources for its insert alone and drops it at the end
\* of the block, then takes the guard on active_context for its one
\* assignment, so each of its two writes is one step.

\* the context state as the last completed write left it
Committed ==
    IF active_context_lock = Free THEN ctx ELSE tasks[active_context_lock].before

\* add_to_short_term_memory: self.active_context.write().await
PushLock(t) ==
    /\ tasks[t].pc = "idle"
    /\ active_context_lock = Free
    /\ Len(pushLog) < MaxPushes
    /\ active_context_lock' = t
    /\ tasks' = [tasks EXCEPT ![t] = [pc |-> "push",
                                      memory |-> RingItem(Len(pushLog) + 1, "Low"),
                                      before |-> ctx]]
    /\ UNCHANGED <<clones, batch, last_sync, spawned, db_pool_closed,
                   config, master_key, initialized, context_sources, now, db, ctx,
                   getPc, lastOp, stored0, getsDone, pushLog>>

\* add_to_short_term_memory: context.short_term_memory.push(memory)
PushAppend(t) ==
    /\ tasks[t].pc = "push"
    /\ ctx' = [ctx EXCEPT !.short_term_memory = Append(@, tasks[t].memory)]
    /\ pushLog' = Append(pushLog, tasks[t].memory)
    /\ tasks' = [tasks EXCEPT ![t].pc = "pushed"]
    /\ UNCHANGED <<clones, batch, last_sync, spawned, db_pool_closed,
                   config, master_key, initialized, context_sources, now, db,
                   getPc, lastOp, stored0, getsDone, active_context_lock>>

\* add_to_short_term_memory: the size limit, then the guard is dropped
PushEvict(t) ==
    /\ tasks[t].pc = "pushed"
    /\ ctx' = [ctx EXCEPT !.short_term_memory = Evicted(@)]
    /\ active_context_lock' = Free
    /\ tasks' = [tasks EXCEPT ![t] = IdleTask]
    /\ UNCHANGED <<clones, batch, last_sync, spawned, db_pool_closed,
                   config, master_key, initialized, context_sources, now, db,
                   getPc, lastOp, stored0, getsDone, pushLog>>

\* update_context: the block that inserts the source (the data argument is
\* not read)
UpdateRegister(t) ==
    /\ tasks[t].pc = "idle"
    /\ \E source \in ContextSources :
          context_sources' = Inserted(context_sources, source)
    /\ tasks' = [tasks EXCEPT ![t] = [pc |-> "registered"]]
    /\ UNCHANGED <<clones, batch, last_sync, spawned, db_pool_closed,
                   config, master_key, initialized, now, db, ctx, getPc, lastOp,
                   stored0, getsDone, pushLog, active_context_lock>>

\* update_context: context.last_updated = Utc::now() under the write guard
UpdateStamp(t) ==
    /\ tasks[t].pc = "registered"
    /\ active_context_lock = Free
    /\ ctx' = [ctx EXCEPT !.last_updated = now]
    /\ tasks' = [tasks EXCEPT ![t] = IdleTask]
    /\ UNCHANGED <<clones, batch, last_sync, spawned, db_pool_closed,
                   config, master_key, initialized, context_sources, now, db,
                   getPc, lastOp, stored0, getsDone, pushLog, active_context_lock>>

\* a read that does not wait for the writer
ReadLockGranted_Always(lock) == TRUE

\* self.active_context.read().await returns once no writer holds the lock
ReadLockGranted(lock) == lock = Free

\* get_current_context: the clone taken under the read guard
GetCurrentContext ==
    /\ ReadLockGranted(active_context_lock)
    /\ lastOp' = [op |-> "current", snapshot |-> ctx, committed |-> Committed]
    /\ UNCHANGED <<clones, batch, last_sync, spawned, db_pool_closed,
                   config, master_key, initialized, context_sources, now, db, ctx,
                   getPc, stored0, getsDone, pushLog, tasks, active_context_lock>>

NextEngine ==
    \/ Tick
    \/ GetCurrentContext
    \/ \E t \in Tasks :
          \/ PushLock(t)
          \/ PushAppend(t)
          \/ PushEvict(t)
          \/ UpdateRegister(t)
          \/ UpdateStamp(t)

SpecEngine == Init /\ [][NextEngine]_vars

\* ------------------------------------------------------------ context updates
\* the data argument of update_context: a JSON object naming a task and the
\* applications in use
ContextData ==
    {[current_task |-> "None", active_applications |-> <<>>],
     [current_task |-> "Write report", active_applications |-> <<"editor">>]}

\* an update that merges the data into the context state
UpdateContext_Fusing ==
    /\ \E source \in ContextSources, data \in ContextData :
          /\ context_sources' = Inserted(context_sources, source)
          /\ ctx' = [ctx EXCEPT !.last_updated = now,
                                !.current_task = data.current_task,
                                !.active_applications = data.active_applications]
          /\ lastOp' = [op |-> "update", source |-> source, data |-> data,
                        replaced |-> {e \in context_sources :
                                         e.source_id = source.source_id},
                        before |-> ctx.last_updated]
    /\ UNCHANGED <<clones, batch, last_sync, spawned, db_pool_closed,
                   tasks, active_context_lock, config, master_key, initialized, now,
                   db, getPc, stored0, getsDone, pushLog>>

\* ContextEngine::update_context, called by one caller at a time (the data
\* argument is not read)
UpdateContext ==
    /\ \E source \in ContextSources, data \in ContextData :
          /\ context_sources' = Inserted(context_sources, source)
          /\ ctx' = [ctx EXCEPT !.last_updated = now]
          /\ lastOp' = [op |-> "update", source |-> source, data |-> data,
                        replaced |-> {e \in context_sources :
                                         e.source_id = source.source_id},
                        before |-> ctx.last_updated]
    /\ UNCHANGED <<clones, batch, last_sync, spawned, db_pool_closed,
                   tasks, active_context_lock, config, master_key, initialized, now,
                   db, getPc, stored0, getsDone, pushLog>>

NextContext ==
    \/ Initialize
    \/ Tick
    \/ UpdateContext
    \/ GetCurrentContext

SpecContext == Init /\ [][NextContext]_vars

\* ------------------------------------------------------------ encryption manager
\* what a caller can hand to decrypt: data sealed under any key, by this run
\* or an earlier one, as it is or relabelled with another algorithm
EncryptedInputs ==
    LET sealed == {encrypt(k, n, p, kid).data :
                      k \in Keys, n \in CryptoNonces, p \in Payloads, kid \in KeyIds}
    IN  sealed \cup {[d EXCEPT !.algorithm = "ChaCha20-Poly1305"] : d \in sealed}

\* SecurityManager::encrypt_data -> EncryptionManager::encrypt
Encrypt ==
    /\ \E p \in Payloads, kid \in KeyIds, n \in CryptoNonces :
          lastOp' = [op |-> "encrypt", key |-> master_key, plaintext |-> p,
                     key_id |-> kid, result |-> encrypt(master_key, n, p, kid)]
    /\ UNCHANGED <<clones, batch, last_sync, spawned, db_pool_closed,
                   tasks, active_context_lock, config, master_key, initialized, context_sources, now, db, ctx,
                   getPc, stored0, getsDone, pushLog>>

\* SecurityManager::decrypt_data -> EncryptionManager::decrypt
Decrypt ==
    /\ \E encrypted_data \in EncryptedInputs :
          lastOp' = [op |-> "decrypt", key |-> master_key, input |-> encrypted_data,
                     result |-> decrypt(master_key, encrypted_data)]
    /\ UNCHANGED <<clones, batch, last_sync, spawned, db_pool_closed,
                   tasks, active_context_lock, config, master_key, initialized, context_sources, now, db, ctx,
                   getPc, stored0, getsDone, pushLog>>

NextCrypto ==
    \/ SecurityInitialize
    \/ Encrypt
    \/ Decrypt

SpecCrypto == Init /\ [][NextCrypto]_vars

\* ------------------------------------------------------------ repeated initialization
\* Each task is a caller of the security manager that seals a payload, keeps
\* the sealed data, and opens it later.  held_over_initialize records that
\* initialize was called while the task held its data.

\* an initialize that generates a key on every call
EncryptionInitialize_Regenerating ==
    /\ \E k \in Keys, rng_ok \in BOOLEAN :
          /\ master_key' = IF rng_ok THEN k ELSE master_key
          /\ lastOp' = [op |-> "initialize", before |-> master_key, ok |-> rng_ok]
    /\ tasks' = [t \in Tasks |->
                    IF tasks[t].pc = "holding"
                    THEN [tasks[t] EXCEPT !.held_over_initialize = TRUE]
                    ELSE tasks[t]]
    /\ UNCHANGED <<clones, batch, last_sync, spawned, db_pool_closed,
                   active_context_lock, config, initialized, context_sources, now,
                   db, ctx, getPc, stored0, getsDone, pushLog>>

\* EncryptionManager::initialize, the whole call: with no key it fills 32
\* bytes from the system's generator, which can fail; with a key it does
\* nothing
EncryptionInitialize ==
    /\ \E k \in Keys, rng_ok \in BOOLEAN :
          IF master_key = NoKey
          THEN /\ master_key' = IF rng_ok THEN k ELSE master_key
               /\ lastOp' = [op |-> "initialize", before |-> master_key, ok |-> rng_ok]
          ELSE /\ master_key' = master_key
               /\ lastOp' = [op |-> "initialize", before |-> master_key, ok |-> TRUE]
    /\ tasks' = [t \in Tasks |->
                    IF tasks[t].pc = "holding"
                    THEN [tasks[t] EXCEPT !.held_over_initialize = TRUE]
                    ELSE tasks[t]]
    /\ UNCHANGED <<clones, batch, last_sync, spawned, db_pool_closed,
                   active_context_lock, config, initialized, context_sources, now,
                   db, ctx, getPc, stored0, getsDone, pushLog>>

\* a caller seals a payload with SecurityManager::encrypt_data and keeps the
\* result
SealAndHold ==
    /\ \E t \in Tasks, p \in Payloads, kid \in KeyIds, n \in CryptoNonces :
          LET result == encrypt(master_key, n, p, kid)
          IN  /\ tasks[t] = IdleTask
              /\ tasks' = [tasks EXCEPT ![t] =
                              IF result.ok
                              THEN [pc |-> "holding", plaintext |-> p,
                                    data |-> result.data,
                                    held_over_initialize |-> FALSE]
                              ELSE IdleTask]
              /\ lastOp' = [op |-> "encrypt", key |-> master_key, plaintext |-> p,
                            key_id |-> kid, result |-> result]
    /\ UNCHANGED <<clones, batch, last_sync, spawned, db_pool_closed,
                   active_context_lock, config, master_key, initialized,
                   context_sources, now, db, ctx, getPc, stored0, getsDone, pushLog>>

\* the caller opens what it holds with SecurityManager::decrypt_data
OpenHeld ==
    /\ \E t \in Tasks :
          /\ tasks[t].pc = "holding"
          /\ lastOp' = [op |-> "open", plaintext |-> tasks[t].plaintext,
                        held_over_initialize |-> tasks[t].held_over_initialize,
                        result |-> decrypt(master_key, tasks[t].data)]
          /\ tasks' = [tasks EXCEPT ![t] = IdleTask]
    /\ UNCHANGED <<clones, batch, last_sync, spawned, db_pool_closed,
                   active_context_lock, config, master_key, initialized,
                   context_sources, now, db, ctx, getPc, stored0, getsDone, pushLog>>

NextKeys ==
    \/ EncryptionInitialize
    \/ SealAndHold
    \/ OpenHeld

SpecKeys == Init /\ [][NextKeys]_vars

\* ------------------------------------------------------------ background tasks
\* one turn of the loop of the pruning task: it waits for its daily tick and
\* logs; the store is not touched.  The days from MaxNow on are kept as one
\* day, on which the task goes on ticking.
PruneTask ==
    /\ \E s \in spawned :
          /\ s.task = "prune"
          /\ s.due <= now
          /\ spawned' = (spawned \ {s})
                \cup {[task |-> "prune",
                       due |-> IF s.due < MaxNow THEN s.due + 1 ELSE MaxNow]}
    /\ lastOp' = [op |-> "prune_task"]
    /\ UNCHANGED <<clones, batch, last_sync, db_pool_closed,
                   tasks, active_context_lock, config, master_key, initialized,
                   context_sources, now, db, ctx, getPc, stored0, getsDone, pushLog>>

\* one turn of the loop of the cloud sync task: it waits for its tick and
\* writes the time to last_sync
SyncTask ==
    /\ \E s \in spawned : s.task = "sync" /\ s.due <= now
    /\ last_sync' = now
    /\ lastOp' = [op |-> "sync_task"]
    /\ UNCHANGED <<clones, batch, spawned, db_pool_closed,
                   tasks, active_context_lock, config, master_key, initialized,
                   context_sources, now, db, ctx, getPc, stored0, getsDone, pushLog>>

\* MemoryManager::shutdown: sync_with_cloud, then db_pool.close(); no handle
\* of a spawned task was kept, and none is aborted
Shutdown ==
    /\ ~db_pool_closed
    /\ last_sync' = now
    /\ db_pool_closed' = TRUE
    /\ lastOp' = [op |-> "shutdown", ok |-> TRUE]
    /\ UNCHANGED <<clones, batch, spawned, tasks, active_context_lock, config, master_key, initialized,
                   context_sources, now, db, ctx, getPc, stored0, getsDone, pushLog>>

\* store_memory on the open pool
StoreOpen ==
    /\ ~db_pool_closed
    /\ StoreTagged

NextBackground ==
    \/ SecurityInitialize
    \/ Initialize
    \/ Tick
    \/ StoreOpen
    \/ PruneTask
    \/ SyncTask
    \/ Shutdown

SpecBackground == Init /\ [][NextBackground]_vars

\* The tokio runtime polls every spawned task that is ready, and the clock
\* advances.
FairSpecBackground ==
    /\ SpecBackground
    /\ WF_vars(Tick)
    /\ WF_vars(PruneTask)
    /\ WF_vars(SyncTask)

\* ------------------------------------------------------------ clones
\* ContextState::default() at time t
DefaultContextState(t) ==
    [current_task |-> "None", active_applications |-> <<>>,
     short_term_memory |-> <<>>, last_updated |-> t]

\* the context engine of a clone, as impl Clone for MemoryManager builds it:
\* ContextEngine::new(), with a ContextState and a source map of its own
\* (clone is not an async fn and the line reads ContextEngine::new().await;
\* the engine is a new one whichever way that is made to build)
ClonedEngine(t) ==
    [active_context |-> DefaultContextState(t), context_sources |-> {}]

\* impl Clone for MemoryManager: config, security manager and pool are
\* shared with the original
CloneManager ==
    /\ Len(clones) < MaxClones
    /\ clones' = Append(clones, ClonedEngine(now))
    /\ lastOp' = [op |-> "clone", handle |-> Len(clones) + 1]
    /\ UNCHANGED <<batch, last_sync, spawned, db_pool_closed,
                   tasks, active_context_lock, config, master_key, initialized,
                   context_sources, now, db, ctx, getPc, stored0, getsDone, pushLog>>

\* MemoryManager::store_memory called on a clone: the row goes to the shared
\* pool, a ShortTerm item to the clone's context engine
StoreOnClone ==
    /\ initialized
    /\ \E k \in 1..Len(clones), memory \in MemoryItems(config.retention_days),
          nonce \in Nonces :
          LET enc == IF config.encryption_enabled
                     THEN encrypt_memory(master_key, nonce, memory)
                     ELSE [ok |-> FALSE, err |-> "None"]
          IN  /\ memory.memory_type = "ShortTerm" => Len(pushLog) < MaxShortTermStores
              /\ IF config.encryption_enabled /\ ~enc.ok
                 THEN /\ lastOp' = [op |-> "store", id |-> memory.id, ok |-> FALSE,
                                    err |-> enc.err]
                      /\ UNCHANGED <<db, clones, stored0, getsDone, pushLog>>
                 ELSE IF memory.id \in DOMAIN db
                 THEN /\ lastOp' = [op |-> "store", id |-> memory.id, ok |-> FALSE,
                                    err |-> "Database"]
                      /\ UNCHANGED <<db, clones, stored0, getsDone, pushLog>>
                 ELSE /\ db' = (memory.id :> RowOf(memory, enc)) @@ db
                      /\ stored0' = (memory.id :> memory) @@ stored0
                      /\ getsDone' = (memory.id :> 0) @@ getsDone
                      /\ IF ForwardsToContext(memory)
                         THEN /\ clones' =
                                   [clones EXCEPT ![k].active_context.short_term_memory =
                                                      Pushed(@, memory)]
                              /\ pushLog' = Append(pushLog, memory)
                         ELSE UNCHANGED <<clones, pushLog>>
                      /\ lastOp' = [op |-> "store", id |-> memory.id, ok |-> TRUE,
                                    returned |-> memory.id]
    /\ UNCHANGED <<batch, last_sync, spawned, db_pool_closed,
                   tasks, active_context_lock, config, master_key, initialized,
                   context_sources, now, ctx, getPc>>

\* MemoryManager::update_context called on a clone
UpdateContextOnClone ==
    /\ \E k \in 1..Len(clones), source \in ContextSources, data \in ContextData :
          /\ clones' = [clones EXCEPT
                           ![k].context_sources = Inserted(@, source),
                           ![k].active_context.last_updated = now]
          /\ lastOp' = [op |-> "update", source |-> source, data |-> data,
                        replaced |-> {e \in clones[k].context_sources :
                                         e.source_id = source.source_id},
                        before |-> clones[k].active_context.last_updated]
    /\ UNCHANGED <<batch, last_sync, spawned, db_pool_closed,
                   tasks, active_context_lock, config, master_key, initialized,
                   context_sources, now, db, ctx, getPc, stored0, getsDone, pushLog>>

\* MemoryManager::get_current_context called on a handle: 0 is the manager
\* built by MemoryManager::new, k > 0 its k-th clone
CurrentOnHandle ==
    /\ \E h \in 0..Len(clones) :
          lastOp' = [op |-> "current_on", handle |-> h,
                     snapshot |-> IF h = 0 THEN ctx ELSE clones[h].active_context]
    /\ UNCHANGED <<clones, batch, last_sync, spawned, db_pool_closed,
                   tasks, active_context_lock, config, master_key, initialized,
                   context_sources, now, db, ctx, getPc, stored0, getsDone, pushLog>>

NextClones ==
    \/ SecurityInitialize
    \/ Initialize
    \/ Tick
    \/ CloneManager
    \/ StoreMemory
    \/ StoreOnClone
    \/ UpdateContext
    \/ UpdateContextOnClone
    \/ CurrentOnHandle

SpecClones == Init /\ [][NextClones]_vars

\* ------------------------------------------------------------ cloud sync
\* CloudSync::new(true), built by MemoryManager::new
CloudSyncNew ==
    [enabled |-> TRUE, sync_interval_minutes |-> 30,
     conflict_resolver |-> [strategy |-> "LastModifiedWins"]]

\* the remote copies a synchronization meets: an item of the store as the
\* other device holds it, read there a day earlier or a day later
RemoteItems(table, sent) ==
    {[sent[i] EXCEPT !.last_accessed = table[i].last_accessed + d,
                     !.access_count = table[i].access_count + 1] :
        i \in DOMAIN table, d \in {-1, 1}}

\* MemoryManager::sync_with_cloud: nothing is uploaded, downloaded or
\* resolved, the strategy is not read; the time is written to last_sync
SyncWithCloud ==
    /\ initialized
    /\ \E remote \in RemoteItems(db, stored0) :
          lastOp' = [op |-> "sync", strategy |-> CloudSyncNew.conflict_resolver.strategy,
                     remote |-> remote, local |-> db[remote.id]]
    /\ last_sync' = IF CloudSyncNew.enabled THEN now ELSE last_sync
    /\ UNCHANGED <<clones, batch, spawned, db_pool_closed,
                   tasks, active_context_lock, config, master_key, initialized,
                   context_sources, now, db, ctx, getPc, stored0, getsDone, pushLog>>

NextSync ==
    \/ SecurityInitialize
    \/ Initialize
    \/ Tick
    \/ StoreTagged
    \/ SyncWithCloud

SpecSync == Init /\ [][NextSync]_vars

\* ------------------------------------------------------------ analytics: inputs
\* Analysed batches are sequences of MemoryItem; their timestamps are minutes
\* relative to day 0 of the clock.
BatchItem(id, content, access_count, tags, created_at, last_accessed) ==
    [id |-> id, content |-> content, memory_type |-> "MediumTerm",
     importance |-> "Medium", tags |-> tags, created_at |-> created_at,
     last_accessed |-> last_accessed, access_count |-> access_count,
     encrypted |-> FALSE]

\* n items accessed once, the one at position pos accessed hi times
AccessBatch(n, pos, hi) ==
    [j \in 1..n |->
        BatchItem(j, <<"note">>, IF j = pos THEN hi ELSE 1, <<>>, 0 - j, 0 - j)]

\* n items, each accessed c times
UniformBatch(n, c) ==
    [j \in 1..n |-> BatchItem(j, <<"note">>, c, <<>>, 0 - j, 0 - j)]

\* one item per entry of days, created on the day the entry names
DayBatch(days) ==
    [j \in 1..Len(days) |->
        BatchItem(j, <<"note">>, 0,
                  IF j = 1 THEN <<"work", "personal">> ELSE <<>>,
                  (0 - days[j]) * MinutesPerDay, (0 - days[j]) * MinutesPerDay)]

\* Content is kept as its words, in order; no word used here is part of
\* another, so that a content contains a word exactly when it holds it.
Words == {"quarterly", "Report", "team", "Meeting", "task", "list", "note",
          "new", "idea"}

\* the items predictions and relevance are computed over
PredictionItems ==
    {BatchItem(1, <<"quarterly", "Report">>, 10, <<>>, -120, -60),
     BatchItem(2, <<"team", "Meeting">>, 0, <<>>, -1470, -1470),
     BatchItem(3, <<"task", "list">>, 0, <<"formal">>, -60, -59),
     BatchItem(4, <<"note">>, 0, <<>>, -3000, 1440),
     BatchItem(5, <<"new", "idea">>, MaxCount, <<>>, -3000, 0)}

\* batches of different items
PredictionBatches ==
    UNION {{b \in [1..n -> PredictionItems] :
               \A i, j \in 1..n : i # j => b[i].id # b[j].id} :
           n \in 0..MaxPredictionBatch}

\* ContextState, as far as the analytics components read it
AnalysisContexts ==
    [current_task : {"None", "report"},
     active_applications : {<<>>, <<"Note">>},
     preferred_tone : {{"helpful", "friendly"}, {"formal"}},
     time_of_day : {"Morning", "Afternoon", "Evening", "Night"}]

\* the batches handed to the anomaly detector
AnomalyBatches ==
    UNION {{AccessBatch(n, pos, 50) : pos \in 0..n} : n \in 0..MaxBatch}
    \cup {UniformBatch(MinAccessBatch, c * CountUnit) : c \in 1..2}
    \cup {DayBatch(<<1, 2, 3, 4, 5, 6, 7, 8, 9, 9, 9, 9, 10, 10, 10, 10>>),
          DayBatch(<<1, 2, 3, 4, 5, 6, 7, 8, 9, 10, 10, 10, 10, 10, 10, 10>>),
          DayBatch(<<1, 2, 3, 4, 5, 6, 6, 6, 6, 6, 6, 6>>),
          DayBatch(<<1, 2, 3, 4, 5, 6, 7, 8, 9, 10>>)}

\* ------------------------------------------------------------ anomaly detector
\* The detector works in f64.  mean, variance and the quotient are kept exact
\* here, as integers scaled by the batch size.  Where the exact z-score
\* equals a bound, the f64 quotient is the bound itself or one unit in the
\* last place off it, depending on the order in which the squares were
\* summed.  Roundings is the side it lands on: above the bound, or not.
Roundings == {"below", "above"}

\* the side, had the arithmetic been exact
SliceRounding_Exact(counts, k) == "below"

\* The side for item k of a slice of counts that are all 1 but for one 50,
\* summed in the order of the slice (mean = sum / len, then the squares
\* (x - mean) * (x - mean) added one by one, / len, sqrt, and the quotient):
\* of 10 counts, the z-score of the 50 is 3.0000000000000004 when the 50 is
\* the last one and 2.9999999999999996 when it is anywhere else; of 5 counts
\* it is 2.0.
SliceRounding(counts, k) ==
    IF Len(counts) = 10 /\ k = Len(counts) THEN "above" ELSE "below"

RECURSIVE SumOver(_, _)
SumOver(f, keys) ==
    IF keys = {} THEN 0
    ELSE LET k == CHOOSE j \in keys : TRUE
         IN  f[k] + SumOver(f, keys \ {k})

\* The z-score of f[k] is Deviation / Sqrt(SquaredDeviations / n), where
\* Deviation is (f[k] - mean) * n and SquaredDeviations the sum of the
\* squares of all the deviations.
Deviation(f, k) == Cardinality(DOMAIN f) * f[k] - SumOver(f, DOMAIN f)

SquaredDeviations(f) ==
    LET n == Cardinality(DOMAIN f)
        sum == SumOver(f, DOMAIN f)
        sq == [k \in DOMAIN f |-> (n * f[k] - sum) * (n * f[k] - sum)]
    IN  SumOver(sq, DOMAIN f)

\* access_count is a u32 and the access check adds the counts up in a u32.
\* Counts that are multiples of CountUnit = 2^28 are kept in that unit, of
\* which 2^32 is U32Units; the other counts analysed here are small, and
\* their sum stays far below 2^32.  A z-score is the same in either unit.
CountUnitOf(counts) ==
    IF \A j \in DOMAIN counts : counts[j] % CountUnit = 0 THEN CountUnit ELSE 1

InUnits(counts) ==
    [j \in DOMAIN counts |-> counts[j] \div CountUnitOf(counts)]

\* access_counts.iter().sum::<u32>(): whether the addition overflows, and
\* the sum modulo 2^32 that a build without overflow checks goes on with
sum_u32(counts) ==
    LET exact == SumOver(InUnits(counts), DOMAIN counts)
    IN  IF CountUnitOf(counts) = CountUnit
        THEN [overflow |-> exact >= U32Units, wrapped |-> exact % U32Units]
        ELSE [overflow |-> FALSE, wrapped |-> exact]

\* z_score.abs() > bound, for z_score = (f[k] - mean) / std_dev with
\* mean = sum / len, whatever sum is
ZScoreExceedsFrom(f, k, sum, bound, rounding) ==
    LET n == Cardinality(DOMAIN f)
        d == n * f[k] - sum
        sq == [j \in DOMAIN f |-> (n * f[j] - sum) * (n * f[j] - sum)]
        lhs == d * d * n
        rhs == bound * bound * SumOver(sq, DOMAIN f)
    IN  IF rhs = 0 THEN FALSE
        ELSE IF lhs = rhs THEN rounding = "above"
        ELSE lhs > rhs

\* a test that also passes a z-score equal to the bound
ZScoreExceeds_OrEquals(f, k, bound, rounding) ==
    LET d == Deviation(f, k)
        lhs == d * d * Cardinality(DOMAIN f)
        rhs == bound * bound * SquaredDeviations(f)
    IN  IF rhs = 0 THEN FALSE ELSE lhs >= rhs

\* z_score.abs() > bound, for z_score = (f[k] - mean) / std_dev; with
\* std_dev = 0 every value equals the mean, the quotient is NaN and the test
\* is false
ZScoreExceeds(f, k, bound, rounding) ==
    LET d == Deviation(f, k)
        lhs == d * d * Cardinality(DOMAIN f)
        rhs == bound * bound * SquaredDeviations(f)
    IN  IF rhs = 0 THEN FALSE
        ELSE IF lhs = rhs THEN rounding = "above"
        ELSE lhs > rhs

\* the access check without its minimum batch size
detect_access_anomalies_NoMinimum(memories, t) ==
    LET access_counts == [j \in 1..Len(memories) |-> memories[j].access_count]
        Exceeds(j, bound) ==
            ZScoreExceedsFrom(InUnits(access_counts), j, sum_u32(access_counts).wrapped,
                              bound, SliceRounding(access_counts, j))
        Unusual(j) == Exceeds(j, AnomalyThreshold)
        hits == SelectSeq([j \in 1..Len(memories) |-> j], Unusual)
    IN  [h \in 1..Len(hits) |->
            [anomaly_type |-> "UnusualAccessPattern",
             severity |-> IF Exceeds(hits[h], HighSeverityBound)
                          THEN "High" ELSE "Medium",
             affected_memories |-> <<memories[hits[h]].id>>,
             detected_at |-> t]]

\* AnomalyDetector::detect_access_anomalies, in a build that does not check
\* for overflow or when the sum does not overflow
detect_access_anomalies(memories, t) ==
    LET access_counts == [j \in 1..Len(memories) |-> memories[j].access_count]
        Exceeds(j, bound) ==
            ZScoreExceedsFrom(InUnits(access_counts), j, sum_u32(access_counts).wrapped,
                              bound, SliceRounding(access_counts, j))
        Unusual(j) == Exceeds(j, AnomalyThreshold)
        hits == SelectSeq([j \in 1..Len(memories) |-> j], Unusual)
    IN  IF Len(access_counts) < MinAccessBatch THEN <<>>
        ELSE [h \in 1..Len(hits) |->
                [anomaly_type |-> "UnusualAccessPattern",
                 severity |-> IF Exceeds(hits[h], HighSeverityBound)
                              THEN "High" ELSE "Medium",
                 affected_memories |-> <<memories[hits[h]].id>>,
                 detected_at |-> t]]

\* created_at.date_naive(): the day a minute falls in
date_naive(minutes) == minutes \div MinutesPerDay

\* AnomalyDetector::detect_volume_anomalies; the anomalies come in the
\* iteration order of a HashMap and are kept as a set
detect_volume_anomalies(memories, rounding, t) ==
    LET dates == {date_naive(memories[j].created_at) : j \in 1..Len(memories)}
        daily_counts ==
            [d \in dates |->
                Cardinality({j \in 1..Len(memories) :
                                date_naive(memories[j].created_at) = d})]
        OnDate(d) ==
            LET Created(m) == date_naive(m.created_at) = d
                on == SelectSeq(memories, Created)
            IN  [j \in 1..Len(on) |-> on[j].id]
    IN  IF Cardinality(dates) < MinVolumeDays THEN {}
        ELSE {[anomaly_type |-> "MemoryVolumeSpike",
               severity |-> IF Deviation(daily_counts, d) > 0
                            THEN "Medium" ELSE "Low",
               affected_memories |-> OnDate(d),
               detected_at |-> t] :
                 d \in {e \in dates :
                           ZScoreExceeds(daily_counts, e, AnomalyThreshold, rounding)}}

\* AnomalyDetector::has_contextual_conflict
has_contextual_conflict(memory) ==
    LET Contains(tag) == \E k \in 1..Len(memory.tags) : memory.tags[k] = tag
    IN  \/ Contains("urgent") /\ Contains("low-priority")
        \/ Contains("work") /\ Contains("personal")
        \/ Contains("important") /\ Contains("trivial")

\* AnomalyDetector::detect_contextual_anomalies
detect_contextual_anomalies(memories, t) ==
    LET hits == SelectSeq(memories, has_contextual_conflict)
    IN  [h \in 1..Len(hits) |->
            [anomaly_type |-> "ContextualMismatch", severity |-> "Low",
             affected_memories |-> <<hits[h].id>>, detected_at |-> t]]

\* AnomalyDetector::detect_anomalies, as the set of the anomalies returned;
\* the access check sums in the order of the slice, the volume check in the
\* iteration order of its HashMap, which volume_rounding stands for
detect_anomalies(memories, volume_rounding, t) ==
    LET access == detect_access_anomalies(memories, t)
        contextual == detect_contextual_anomalies(memories, t)
    IN  {access[j] : j \in 1..Len(access)}
        \cup detect_volume_anomalies(memories, volume_rounding, t)
        \cup {contextual[j] : j \in 1..Len(contextual)}

\* ------------------------------------------------------------ relevance scorer
\* Scores are f32 in the code; here they are integers in units of 1/Scale.
\* str::to_lowercase on the words used
to_lowercase(word) ==
    CASE word = "Report" -> "report"
      [] word = "Meeting" -> "meeting"
      [] word = "Note" -> "note"
      [] OTHER -> word

\* memory.content.to_lowercase().contains(&needle.to_lowercase())
Contains(content, needle) ==
    \E k \in 1..Len(content) : to_lowercase(content[k]) = to_lowercase(needle)

\* Duration::num_hours: whole hours, rounded toward zero
num_hours(minutes) ==
    IF minutes >= 0 THEN minutes \div MinutesPerHour
    ELSE 0 - ((0 - minutes) \div MinutesPerHour)

\* factor^n in units of 1/Scale, by repeated squaring
RECURSIVE Power(_, _)
Power(factor, n) ==
    IF n = 0 THEN Scale
    ELSE LET half == Power(factor, n \div 2)
             square == (half * half) \div Scale
         IN  IF n % 2 = 1 THEN (square * factor) \div Scale ELSE square

\* (-0.1 * hours).exp(): e^-0.1 = 0.9048 and e^0.1 = 1.1052 to the power of
\* the hours; from 100 hours on the value is below 1/Scale
Exp(hours) ==
    IF hours >= 100 THEN 0
    ELSE IF hours >= 0 THEN Power(DecayPerHour, hours)
    ELSE Power(GrowthPerHour, 0 - hours)

\* a time score that treats an access in the future as one made now
calculate_time_score_Clamped(memory, t) ==
    LET hours_since_access == num_hours(t - memory.last_accessed)
    IN  Exp(IF hours_since_access < 0 THEN 0 ELSE hours_since_access)

\* RelevanceScorer::calculate_time_score
calculate_time_score(memory, t) ==
    LET hours_since_access == num_hours(t - memory.last_accessed)
    IN  Exp(hours_since_access)

\* (1.0 + access_count as f32).log10(), for the counts used
\* (access_count is a u32; MaxCount is the largest count held here, and
\* for u32::MAX the logarithm is 9.6330)
Log10(access_count) ==
    CASE access_count = 0 -> 0
      [] access_count = 1 -> 3010
      [] access_count = 10 -> 10414
      [] access_count = 50 -> 17076
      [] access_count = CountUnit -> 84288
      [] access_count = 2 * CountUnit -> 87298
      [] access_count = MaxCount -> 93319

\* RelevanceScorer::calculate_frequency_score
calculate_frequency_score(memory) == Log10(memory.access_count) \div 10

\* a context score that gives the whole weight to the current task
calculate_context_score_TaskOnly(memory, context) ==
    IF context.current_task # "None" /\ Contains(memory.content, context.current_task)
    THEN Scale ELSE 0

\* RelevanceScorer::calculate_context_score
calculate_context_score(memory, context) ==
    LET task == IF context.current_task # "None"
                   /\ Contains(memory.content, context.current_task)
                THEN TaskScore ELSE 0
        apps == Cardinality({k \in 1..Len(context.active_applications) :
                    Contains(memory.content, context.active_applications[k])})
        tags == Cardinality({k \in 1..Len(memory.tags) :
                    to_lowercase(memory.tags[k]) \in context.preferred_tone})
        score == task + apps * ApplicationScore + tags * TagScore
    IN  IF score < Scale THEN score ELSE Scale

\* RelevanceScorer::calculate_relevance
calculate_relevance(memory, context, t) ==
    (calculate_time_score(memory, t) * RecencyWeight
     + calculate_frequency_score(memory) * FrequencyWeight
     + calculate_context_score(memory, context) * ContextWeight) \div Scale

\* ------------------------------------------------------------ prediction engine
\* A Prediction, without its suggestion text; confidence in units of 1/Scale.
Prediction(prediction_type, confidence, supporting_memories, valid_until) ==
    [prediction_type |-> prediction_type, confidence |-> confidence,
     supporting_memories |-> supporting_memories, valid_until |-> valid_until]

\* iter().take(n)
Take(seq, n) == SubSeq(seq, 1, IF Len(seq) < n THEN Len(seq) ELSE n)

\* PredictionEngine::extract_action_type
extract_action_type(memory) ==
    IF Contains(memory.content, "meeting") THEN "schedule meeting"
    ELSE IF Contains(memory.content, "task") THEN "create task"
    ELSE IF Contains(memory.content, "note") THEN "take notes"
    ELSE "None"

ActionTypes == {"schedule meeting", "create task", "take notes"}

\* the part of predict_next_actions that follows the choice of the recent
\* memories: the count of the majority bucket over the number of them
next_action_prediction(recent_memories, t) ==
    LET action_counts ==
            [a \in ActionTypes |->
                Cardinality({j \in 1..Len(recent_memories) :
                                extract_action_type(recent_memories[j]) = a})]
        count == CHOOSE c \in {action_counts[a] : a \in ActionTypes} :
                    \A a \in ActionTypes : action_counts[a] <= c
        ids == [j \in 1..Len(recent_memories) |-> recent_memories[j].id]
    IN  IF recent_memories = <<>> \/ count = 0 THEN <<>>
        ELSE <<Prediction("next_action", (count * Scale) \div Len(recent_memories),
                          Take(ids, SupportingMemories), t + MinutesPerHour)>>

\* PredictionEngine::predict_next_actions
predict_next_actions(context, memories, t) ==
    LET Recent(m) == num_hours(m.created_at - t) >= 0 - RecentHours
    IN  next_action_prediction(SelectSeq(memories, Recent), t)

\* sort_by(|a, b| b.0.partial_cmp(&a.0)): descending by score, stable
RECURSIVE SortedByScore(_)
SortedByScore(scored) ==
    IF scored = <<>> THEN <<>>
    ELSE LET top == CHOOSE j \in 1..Len(scored) :
                      /\ \A k \in 1..Len(scored) : scored[k][1] <= scored[j][1]
                      /\ \A k \in 1..(j - 1) : scored[k][1] < scored[j][1]
             rest == [k \in 1..(Len(scored) - 1) |->
                         IF k < top THEN scored[k] ELSE scored[k + 1]]
         IN  <<scored[top]>> \o SortedByScore(rest)

\* PredictionEngine::predict_relevant_memories
predict_relevant_memories(context, memories, t) ==
    LET scored == [j \in 1..Len(memories) |->
                      <<calculate_relevance(memories[j], context, t), memories[j]>>]
        Relevant(pair) == pair[1] > RelevantAbove
        relevant_memories == SortedByScore(SelectSeq(scored, Relevant))
        ids == [j \in 1..Len(relevant_memories) |-> relevant_memories[j][2].id]
    IN  IF relevant_memories = <<>> THEN <<>>
        ELSE <<Prediction("relevant_memories", relevant_memories[1][1],
                          Take(ids, SupportingMemories), t + 2 * MinutesPerHour)>>

\* PredictionEngine::predict_time_based_needs
predict_time_based_needs(context, memories, t) ==
    CASE context.time_of_day = "Morning" ->
            <<Prediction("time_based", MorningConfidence, <<>>, t + 2 * MinutesPerHour)>>
      [] context.time_of_day = "Afternoon" ->
            <<Prediction("time_based", AfternoonConfidence, <<>>, t + MinutesPerHour)>>
      [] context.time_of_day = "Evening" ->
            <<Prediction("time_based", EveningConfidence, <<>>, t + 3 * MinutesPerHour)>>
      [] OTHER -> <<>>

\* the three predictors' output, returned as it is
generate_predictions_Unfiltered(context, memories, t) ==
    predict_next_actions(context, memories, t)
    \o predict_relevant_memories(context, memories, t)
    \o predict_time_based_needs(context, memories, t)

\* PredictionEngine::generate_predictions
generate_predictions(context, memories, t) ==
    LET predictions == predict_next_actions(context, memories, t)
                       \o predict_relevant_memories(context, memories, t)
                       \o predict_time_based_needs(context, memories, t)
        Confident(p) == p.confidence >= ConfidenceThreshold
    IN  SelectSeq(predictions, Confident)

\* ------------------------------------------------------------ pattern detector
\* The patterns are kept as a set: the contextual ones come in the iteration
\* order of a HashMap.  Confidence in units of 1/Scale.
\* created_at.hour()
hour(minutes) == (minutes % MinutesPerDay) \div MinutesPerHour

\* PatternDetector::detect_temporal_patterns; a confidence of at least the
\* threshold leaves one most active hour
detect_temporal_patterns(memories) ==
    LET hours == {hour(memories[j].created_at) : j \in 1..Len(memories)}
        hour_frequency ==
            [h \in hours |->
                Cardinality({j \in 1..Len(memories) : hour(memories[j].created_at) = h})]
    IN  {[pattern_type |-> "Temporal", hour_of_day |-> h,
          confidence |-> (hour_frequency[h] * Scale) \div Len(memories)] :
            h \in {g \in hours :
                     /\ \A f \in hours : hour_frequency[f] <= hour_frequency[g]
                     /\ (hour_frequency[g] * Scale) \div Len(memories)
                            >= DetectionThreshold}}

\* the number of times the keyword occurs in the contents of the batch
RECURSIVE Occurrences(_, _)
Occurrences(memories, keyword) ==
    IF memories = <<>> THEN 0
    ELSE Cardinality({k \in 1..Len(Head(memories).content) :
                         to_lowercase(Head(memories).content[k]) = keyword})
         + Occurrences(Tail(memories), keyword)

\* a keyword count that keeps the short words
context_keywords_AnyLength(memories) ==
    UNION {{to_lowercase(memories[j].content[k]) :
               k \in 1..Len(memories[j].content)} :
           j \in 1..Len(memories)}

\* the keys of context_keywords: the words of more than 3 bytes, lowercased
context_keywords(memories) ==
    UNION {{to_lowercase(memories[j].content[k]) :
               k \in {i \in 1..Len(memories[j].content) :
                         Len(memories[j].content[i]) > ShortWord}} :
           j \in 1..Len(memories)}

\* PatternDetector::detect_contextual_patterns
detect_contextual_patterns(memories) ==
    {[pattern_type |-> "Contextual", trigger_situation |-> keyword,
      confidence |-> (Occurrences(memories, keyword) * Scale) \div Len(memories)] :
        keyword \in {w \in context_keywords(memories) :
                        (Occurrences(memories, w) * Scale) \div Len(memories)
                            >= DetectionThreshold \div 2}}

\* PatternDetector::detect_behavioral_patterns; avg_duration is the average
\* number of minutes between two creations
detect_behavioral_patterns(memories) ==
    LET created == {memories[j].created_at : j \in 1..Len(memories)}
        first == CHOOSE c \in created : \A d \in created : c <= d
        last == CHOOSE c \in created : \A d \in created : d <= c
    IN  IF Len(memories) < 2 THEN {}
        ELSE {[pattern_type |-> "Behavioral",
               avg_duration |-> (last - first) \div (Len(memories) - 1),
               confidence |-> BehavioralConfidence]}

\* PatternDetector::detect_patterns
detect_patterns(memories) ==
    {p \in detect_temporal_patterns(memories)
            \cup detect_contextual_patterns(memories)
            \cup detect_behavioral_patterns(memories) :
        p.confidence >= DetectionThreshold}

\* ------------------------------------------------------------ analytics: calls
\* The analytics components are pure: a specification of them starts with
\* the batch to analyse and makes one call on it.
AnalysedBatches == AnomalyBatches \cup PredictionBatches

InitAnalytics ==
    /\ config \in Configs
    /\ master_key = NoKey
    /\ initialized = FALSE
    /\ context_sources = {}
    /\ now = 0
    /\ db = <<>>
    /\ ctx = [current_task |-> "None", active_applications |-> <<>>,
              short_term_memory |-> <<>>, last_updated |-> 0]
    /\ getPc = NoGet
    /\ lastOp = Idle
    /\ stored0 = <<>>
    /\ getsDone = <<>>
    /\ pushLog = <<>>
    /\ tasks = [t \in Tasks |-> IdleTask]
    /\ active_context_lock = Free
    /\ batch \in AnalysedBatches
    /\ last_sync = 0
    /\ spawned = {}
    /\ db_pool_closed = FALSE
    /\ clones = <<>>

\* the sum of the access check overflows: a build with overflow checks
\* (debug-assertions, the default of cargo build and cargo test) panics
\* there, a build without them wraps
AccessSumOverflows(memories) ==
    /\ Len(memories) >= MinAccessBatch
    /\ sum_u32([j \in 1..Len(memories) |-> memories[j].access_count]).overflow

\* AnomalyDetector::detect_access_anomalies on the batch, in either build;
\* sum is the sum its mean is taken from, in the unit of the counts
DetectAccessAnomalies ==
    /\ lastOp = Idle
    /\ \E overflow_checks \in BOOLEAN :
          LET access_counts == [j \in 1..Len(batch) |-> batch[j].access_count]
              panicked == overflow_checks /\ AccessSumOverflows(batch)
          IN  lastOp' = [op |-> "detect_access_anomalies",
                         overflow_checks |-> overflow_checks,
                         panicked |-> panicked,
                         sum |-> IF Len(batch) >= MinAccessBatch /\ ~panicked
                                 THEN sum_u32(access_counts).wrapped ELSE 0,
                         result |-> IF panicked THEN <<>>
                                    ELSE detect_access_anomalies(batch,
                                                                 now * MinutesPerDay)]
    /\ UNCHANGED <<clones, batch, last_sync, spawned, db_pool_closed,
                   tasks, active_context_lock, config, master_key, initialized,
                   context_sources, now, db, ctx, getPc, stored0, getsDone, pushLog>>

\* AnomalyDetector::detect_anomalies, twice on the batch: each run builds its
\* own HashMap of daily counts, with its own iteration order
DetectAnomaliesTwice ==
    /\ lastOp = Idle
    /\ \E first_rounding \in Roundings, second_rounding \in Roundings,
          overflow_checks \in BOOLEAN :
          IF overflow_checks /\ AccessSumOverflows(batch)
          THEN lastOp' = [op |-> "detect_anomalies", panicked |-> TRUE,
                          first |-> {}, second |-> {}]
          ELSE lastOp' = [op |-> "detect_anomalies", panicked |-> FALSE,
                          first |-> detect_anomalies(batch, first_rounding,
                                                     now * MinutesPerDay),
                          second |-> detect_anomalies(batch, second_rounding,
                                                      now * MinutesPerDay)]
    /\ UNCHANGED <<clones, batch, last_sync, spawned, db_pool_closed,
                   tasks, active_context_lock, config, master_key, initialized,
                   context_sources, now, db, ctx, getPc, stored0, getsDone, pushLog>>

\* RelevanceScorer::calculate_relevance on an item of the batch
CalculateRelevance ==
    /\ lastOp = Idle
    /\ \E j \in 1..Len(batch), context \in AnalysisContexts :
          lastOp' = [op |-> "calculate_relevance", memory |-> batch[j],
                     context |-> context,
                     result |-> calculate_relevance(batch[j], context,
                                                    now * MinutesPerDay)]
    /\ UNCHANGED <<clones, batch, last_sync, spawned, db_pool_closed,
                   tasks, active_context_lock, config, master_key, initialized,
                   context_sources, now, db, ctx, getPc, stored0, getsDone, pushLog>>

\* PredictionEngine::generate_predictions on the batch, with what each of
\* the first two predictors handed to it
GeneratePredictions ==
    /\ lastOp = Idle
    /\ \E context \in AnalysisContexts :
          lastOp' = [op |-> "generate_predictions", context |-> context,
                     next_actions |-> predict_next_actions(context, batch,
                                                           now * MinutesPerDay),
                     relevant_memories |-> predict_relevant_memories(context, batch,
                                                           now * MinutesPerDay),
                     result |-> generate_predictions(context, batch,
                                                     now * MinutesPerDay)]
    /\ UNCHANGED <<clones, batch, last_sync, spawned, db_pool_closed,
                   tasks, active_context_lock, config, master_key, initialized,
                   context_sources, now, db, ctx, getPc, stored0, getsDone, pushLog>>

\* PatternDetector::detect_patterns on the batch, with what the contextual
\* analysis handed to it
DetectPatterns ==
    /\ lastOp = Idle
    /\ lastOp' = [op |-> "detect_patterns",
                  contextual |-> detect_contextual_patterns(batch),
                  result |-> detect_patterns(batch)]
    /\ UNCHANGED <<clones, batch, last_sync, spawned, db_pool_closed,
                   tasks, active_context_lock, config, master_key, initialized,
                   context_sources, now, db, ctx, getPc, stored0, getsDone, pushLog>>

NextAnalytics ==
    \/ DetectAccessAnomalies
    \/ DetectAnomaliesTwice
    \/ CalculateRelevance
    \/ GeneratePredictions
    \/ DetectPatterns

SpecAnalytics == InitAnalytics /\ [][NextAnalytics]_vars

\* ------------------------------------------------------------ properties
Ring == ctx.short_term_memory

\* C1: prune never removes an item that was stored with memory_type
\* Permanent, whatever its created_at and the retention window.
C1_PermanentNeverPruned ==
    lastOp.op = "prune" => \A d \in lastOp.deleted : d.memory_type # "Permanent"

\* C2: prune deletes exactly the non-Permanent items created strictly before
\* now - retention_days, keeps every other item, and returns how many it
\* deleted.
C2_PruneDeletesExactlyTheOld ==
    lastOp.op = "prune" =>
        /\ \A d \in lastOp.deleted :
              d.memory_type # "Permanent" /\ d.created_at < lastOp.cutoff
        /\ \A i \in DOMAIN db :
              ~(stored0[i].memory_type # "Permanent" /\ db[i].created_at < lastOp.cutoff)
        /\ lastOp.deleted_count = Cardinality(lastOp.deleted)

\* C3: the access_count of a stored item is its count when stored plus the
\* number of gets applied to it, and no get changes its id, content or
\* created_at.
C3_GetCountsEachRead ==
    \A i \in DOMAIN db :
        /\ db[i].access_count = stored0[i].access_count + getsDone[i]
        /\ db[i].id = stored0[i].id
        /\ db[i].content = stored0[i].content
        /\ db[i].created_at = stored0[i].created_at

C3_Witness ==
    /\ lastOp.op = "get" /\ lastOp.found
    /\ lastOp.id \in DOMAIN db
    /\ getsDone[lastOp.id] = 2
    /\ db[lastOp.id].access_count = stored0[lastOp.id].access_count + 2

\* C4: the first get of an item stored with access_count 0 returns the item
\* with the stored content and access_count = 1.
C4_FirstGetReturnsCountOne ==
    (/\ lastOp.op = "get" /\ lastOp.found
     /\ lastOp.id \in DOMAIN db
     /\ stored0[lastOp.id].access_count = 0
     /\ getsDone[lastOp.id] = 1)
    => (/\ lastOp.memory.content = stored0[lastOp.id].content
        /\ lastOp.memory.access_count = 1)

\* C5: with the default MemoryConfig and a security manager that was never
\* initialized, after MemoryManager::initialize a store of an unused id
\* succeeds and returns the id, and the row then holds the stored content.
C5_DefaultConfigStoreSucceeds ==
    (/\ config = DefaultMemoryConfig /\ master_key = NoKey /\ initialized
     /\ lastOp.op = "store"
     /\ (lastOp.ok \/ lastOp.id \notin DOMAIN db))
    => (/\ lastOp.ok
        /\ lastOp.returned = lastOp.id
        /\ get_memory_from_db(db, lastOp.id).found
        /\ get_memory_from_db(db, lastOp.id).memory.content = stored0[lastOp.id].content)

\* C6: a get of an id that is not in the store returns None, and changes
\* neither the table nor the context state.
C6_GetAbsentReturnsNone ==
    [][(lastOp' # lastOp /\ lastOp'.op = "get" /\ ~lastOp'.present)
        => (/\ ~lastOp'.found
            /\ db' = db
            /\ ctx' = ctx
            /\ context_sources' = context_sources)]_vars

C6_Witness ==
    /\ lastOp.op = "get" /\ ~lastOp.present /\ ~lastOp.found
    /\ lastOp.id \notin DOMAIN db
    /\ DOMAIN db # {}

\* C7: short_term_memory never holds more than 50 items.
C7_ShortTermAtMostFifty == Len(Ring) <= 50

C7_Witness == Len(pushLog) >= 51 /\ Len(Ring) = 50 /\ DOMAIN db # {}

\* C8: after n pushes short_term_memory is the last min(n, 50) pushed items
\* in push order, whatever their importance; from the 51st push on the
\* first-pushed item is absent.
C8_StrictFifo ==
    LET n == Len(pushLog)
        k == IF n < 50 THEN n ELSE 50
    IN  /\ Ring = SubSeq(pushLog, n - k + 1, n)
        /\ n >= 51 => \A j \in 1..Len(Ring) : Ring[j].id # pushLog[1].id

C8_Witness ==
    /\ Len(pushLog) = 51
    /\ pushLog[1].importance = "Critical"
    /\ \A j \in 1..Len(Ring) : Ring[j].importance = "Low" /\ Ring[j].id # 1

\* C9: a successful store appends the item as the caller passed it to
\* short_term_memory when its memory_type is ShortTerm, and leaves the
\* context state as it was for any other tier.
C9_StoreForwardsShortTermOnly ==
    [][(lastOp' # lastOp /\ lastOp'.op = "store" /\ lastOp'.ok)
        => LET m == stored0'[lastOp'.id]
               after == ctx'.short_term_memory
           IN  IF m.memory_type = "ShortTerm"
               THEN /\ Len(after) > 0
                    /\ after[Len(after)] = m
                    /\ SubSeq(after, 1, Len(after) - 1)
                         = (IF Len(Ring) < 50 THEN Ring ELSE Tail(Ring))
                    /\ [ctx' EXCEPT !.short_term_memory = Ring] = ctx
                    /\ context_sources' = context_sources
               ELSE ctx' = ctx /\ context_sources' = context_sources]_vars

C9_Witness ==
    /\ lastOp.op = "store" /\ lastOp.ok
    /\ config.encryption_enabled
    /\ stored0[lastOp.id].memory_type = "ShortTerm"
    /\ Ring = <<stored0[lastOp.id]>>
    /\ \E i \in DOMAIN db : stored0[i].memory_type # "ShortTerm"

\* C10: with encryption enabled every persisted record is marked encrypted
\* and holds its content only as the ciphertext of encrypt(content, id):
\* the content column never holds the plaintext.
C10_RecordsHoldOnlyCiphertext ==
    config.encryption_enabled =>
        \A i \in DOMAIN db :
            /\ db[i].encrypted
            /\ db[i].content # stored0[i].content
            /\ \E n \in Nonces :
                  db[i].encrypted_data = Ciphertext(master_key, n, stored0[i].content)

\* C11: once the master key is initialized, decrypt of what encrypt returned
\* for a payload p and a key id k returns p, for every p and k.
C11_DecryptInvertsEncrypt ==
    (lastOp.op = "decrypt" /\ lastOp.key # NoKey) =>
        \A p \in Payloads, kid \in KeyIds, n \in CryptoNonces :
            lastOp.input = encrypt(lastOp.key, n, p, kid).data
                => (lastOp.result.ok /\ lastOp.result.plaintext = p)

C11_Witness ==
    /\ lastOp.op = "decrypt" /\ lastOp.key = "k2"
    /\ lastOp.input = encrypt("k2", "n2", <<72, 105>>, "test-key").data
    /\ lastOp.result.ok /\ lastOp.result.plaintext = <<72, 105>>

\* C12: encrypt and decrypt called before the master key is initialized fail
\* with an encryption error, decrypt of data whose algorithm is not
\* AES-256-GCM fails with an encryption error, and no data is returned in
\* those cases.
C12_NoKeyOrAlgorithmFails ==
    /\ (lastOp.op \in {"encrypt", "decrypt"} /\ lastOp.key = NoKey)
          => (~lastOp.result.ok /\ lastOp.result.err = "Encryption")
    /\ (lastOp.op = "decrypt" /\ lastOp.input.algorithm # "AES-256-GCM")
          => (~lastOp.result.ok /\ lastOp.result.err = "Encryption")

C12_Witness ==
    /\ lastOp.op = "decrypt" /\ lastOp.key = "k1"
    /\ lastOp.input.algorithm = "ChaCha20-Poly1305"
    /\ lastOp.input.ciphertext = Ciphertext("k1", "n1", <<33>>)
    /\ ~lastOp.result.ok /\ lastOp.result.err = "Encryption"

\* C13: a store that fails, at encryption or at the insert of an id already
\* present, returns an error and leaves the table and short_term_memory as
\* they were before the call.
C13_FailedStoreChangesNothing ==
    [][(lastOp' # lastOp /\ lastOp'.op = "store" /\ ~lastOp'.ok)
        => (/\ lastOp'.err \in {"Encryption", "Database"}
            /\ db' = db
            /\ ctx' = ctx)]_vars

C13_Witness ==
    /\ lastOp.op = "store" /\ ~lastOp.ok /\ lastOp.err = "Database"
    /\ lastOp.id \in DOMAIN db
    /\ stored0[lastOp.id].memory_type # "ShortTerm"
    /\ Len(Ring) = 1

\* C14: every snapshot returned by get_current_context, under any
\* interleaving with add_to_short_term_memory and update_context, equals the
\* context state as it was between two complete writes, and never holds 51
\* short-term items.
C14_SnapshotsAreConsistent ==
    lastOp.op = "current" =>
        /\ lastOp.snapshot = lastOp.committed
        /\ Len(lastOp.snapshot.short_term_memory) <= 50

C14_Witness ==
    /\ lastOp.op = "current"
    /\ Len(lastOp.snapshot.short_term_memory) = 50
    /\ lastOp.snapshot.short_term_memory[1].id = 2
    /\ lastOp.snapshot.last_updated = 1
    /\ \E t \in Tasks : tasks[t].pc = "pushed" /\ Len(Ring) = 51

\* C15: concurrent update_context calls are serialized: no update writes
\* between another update's registering of its source and that update's
\* stamping of last_updated, so at most one update is between its two writes.
C15_UpdatesSerialized ==
    Cardinality({t \in Tasks : tasks[t].pc = "registered"}) <= 1

C17_LastAccessedNotBeforeCreated ==
    \A i \in DOMAIN db : db[i].last_accessed >= db[i].created_at

\* C18: under any interleaving of store, get, search and prune, the
\* access_count of an item never decreases while the item is stored.
C18_AccessCountNeverDecreases ==
    [][\A i \in DOMAIN db \cap DOMAIN db' :
          db'[i].access_count >= db[i].access_count]_vars

C18_Witness ==
    /\ lastOp.op = "search" /\ lastOp.result.ok
    /\ getPc # NoGet
    /\ getPc.id \in DOMAIN db
    /\ stored0[getPc.id].access_count = 7
    /\ db[getPc.id].access_count = 8
    /\ \E m \in lastOp.result.memories : m.id = getPc.id /\ m.access_count = 8

\* C19: get_memory_stats reports for each tier the number of stored items
\* of that tier, so the four tier counts add up to total_memories, which is
\* the number of stored items.
C19_StatsCountTiers ==
    [][(lastOp' # lastOp /\ lastOp'.op = "stats")
        => LET stats == lastOp'.stats
               Stored(tier) ==
                   Cardinality({i \in DOMAIN db : stored0[i].memory_type = tier})
           IN  /\ stats.short_term_count = Stored("ShortTerm")
               /\ stats.medium_term_count = Stored("MediumTerm")
               /\ stats.long_term_count = Stored("LongTerm")
               /\ stats.permanent_count = Stored("Permanent")
               /\ stats.short_term_count + stats.medium_term_count
                     + stats.long_term_count + stats.permanent_count
                     = stats.total_memories
               /\ stats.total_memories = Cardinality(DOMAIN db)]_vars

\* C20: search_memories with a non-empty tag set returns exactly the stored
\* items that pass the other filters and whose tags contain every tag of
\* the set.
C20_TagFilterIsAnd ==
    [][(lastOp' # lastOp /\ lastOp'.op = "search" /\ lastOp'.query.tags # <<>>)
        => LET query == lastOp'.query
               Has(i, tag) ==
                   \E k \in 1..Len(stored0[i].tags) : stored0[i].tags[k] = tag
               hits == {i \in DOMAIN db :
                          /\ query.memory_type # "None"
                                => stored0[i].memory_type = query.memory_type
                          /\ \A j \in 1..Len(query.tags) : Has(i, query.tags[j])}
           IN  /\ lastOp'.result.ok
               /\ lastOp'.result.memories = {ItemOf(db[i]) : i \in hits}]_vars

\* C21: for a batch of 10 items with access counts 1,1,1,1,1,1,1,1,1,50 the
\* access check flags the item with count 50, and no other, with severity
\* High.
C21_OutlierFlaggedHigh ==
    (lastOp.op = "detect_access_anomalies" /\ batch = AccessBatch(10, 10, 50))
        => lastOp.result =
              <<[anomaly_type |-> "UnusualAccessPattern", severity |-> "High",
                 affected_memories |-> <<batch[10].id>>,
                 detected_at |-> now * MinutesPerDay]>>

C21_Witness ==
    /\ lastOp.op = "detect_access_anomalies"
    /\ batch = AccessBatch(10, 10, 50)
    /\ Len(lastOp.result) = 1
    /\ lastOp.result[1].severity = "High"

\* C22: for every batch of fewer than 10 items the access check returns no
\* anomaly, whatever the access counts are.
C22_SmallBatchesAreSkipped ==
    (lastOp.op = "detect_access_anomalies" /\ Len(batch) < MinAccessBatch)
        => lastOp.result = <<>>

C22_Witness ==
    /\ lastOp.op = "detect_access_anomalies"
    /\ batch = AccessBatch(9, 9, 50)
    /\ lastOp.result = <<>>

\* C23: two runs of detect_anomalies on the same batch flag the same items,
\* with the same anomaly type and severity.
C23_DetectionIsDeterministic ==
    lastOp.op = "detect_anomalies" =>
        LET Flags(anomalies) ==
                {[anomaly_type |-> a.anomaly_type, severity |-> a.severity,
                  affected_memories |-> a.affected_memories] : a \in anomalies}
        IN  Flags(lastOp.first) = Flags(lastOp.second)

\* C24: for every memory item and context, calculate_relevance returns a
\* value in [0,1], also for an item whose last_accessed is later than the
\* current time and for an item with the largest access_count.
C24_RelevanceInUnitInterval ==
    lastOp.op = "calculate_relevance" =>
        (lastOp.result >= 0 /\ lastOp.result <= Scale)

C26_ReturnedPredictionsAreConfident ==
    lastOp.op = "generate_predictions" =>
        \A k \in 1..Len(lastOp.result) :
            lastOp.result[k].confidence >= ConfidenceThreshold

C26_Witness ==
    /\ lastOp.op = "generate_predictions"
    /\ Len(lastOp.next_actions) = 1
    /\ lastOp.next_actions[1].confidence < ConfidenceThreshold
    /\ Len(lastOp.result) = 1
    /\ lastOp.result[1].confidence = ConfidenceThreshold

\* C27: the next-action predictor counts only items created within the last
\* 24 hours: an item created more than 24 hours before now adds neither to
\* the bucket counts nor to the number of recent items, and the confidence
\* is the majority bucket count divided by the number of recent items.
C27_OnlyLastDayCounts ==
    lastOp.op = "generate_predictions" =>
        LET t == now * MinutesPerDay
            CreatedInLastDay(m) == t - m.created_at <= RecentHours * MinutesPerHour
        IN  lastOp.next_actions
                = next_action_prediction(SelectSeq(batch, CreatedInLastDay), t)

\* C28: the pattern detector emits a Contextual pattern for every token
\* longer than 3 characters whose frequency ratio over the batch is at least
\* threshold * 0.5, which is 0.35.
C28_FrequentTokensAreEmitted ==
    lastOp.op = "detect_patterns" =>
        \A j \in 1..Len(batch) : \A k \in 1..Len(batch[j].content) :
            LET token == to_lowercase(batch[j].content[k])
            IN  (/\ Len(batch[j].content[k]) > 3
                 /\ Occurrences(batch, token) * 20 >= 7 * Len(batch))
                => \E p \in lastOp.result :
                      p.pattern_type = "Contextual" /\ p.trigger_situation = token

\* C28, amended: the contextual analysis emits a Contextual pattern for the
\* lowercased form of every token longer than 3 bytes whose frequency ratio
\* is at least 0.35, and for no other; detect_patterns returns those of them
\* whose ratio is at least the threshold 0.7.
C28_FrequentTokensPassTheThreshold ==
    lastOp.op = "detect_patterns" =>
        LET Tokens(least) ==
                {to_lowercase(w) :
                    w \in {v \in Words :
                             /\ Len(v) > 3
                             /\ Occurrences(batch, to_lowercase(v)) > 0
                             /\ Occurrences(batch, to_lowercase(v)) * 20
                                    >= least * Len(batch)}}
            Contextual(patterns) ==
                {p.trigger_situation :
                    p \in {q \in patterns : q.pattern_type = "Contextual"}}
        IN  /\ Contextual(lastOp.contextual) = Tokens(7)
            /\ Contextual(lastOp.result) = Tokens(14)

C28_Witness ==
    /\ lastOp.op = "detect_patterns"
    /\ Len(batch) = 2
    /\ \E p \in lastOp.contextual :
          p.trigger_situation = "quarterly" /\ p.confidence = 5000
    /\ \A p \in lastOp.result : p.pattern_type # "Contextual"

\* C29: after initialize, without any caller invoking prune_memories, every
\* item that is not Permanent and older than the retention window is
\* eventually removed from the store by the background pruning task.
C29_BackgroundPruningRemovesOld ==
    (initialized
     /\ \E i \in DOMAIN db :
           /\ stored0[i].memory_type # "Permanent"
           /\ stored0[i].created_at < now - config.retention_days)
    ~> (\A i \in DOMAIN db :
           \/ stored0[i].memory_type = "Permanent"
           \/ stored0[i].created_at >= now - config.retention_days)

\* C30: once shutdown has returned, no background task modifies the store
\* or the last-sync timestamp again.
C30_NothingRunsAfterShutdown ==
    [][db_pool_closed => (last_sync' = last_sync /\ db' = db)]_vars

\* C31: there is one context state shared by every handle: a ShortTerm item
\* stored through any handle of the memory manager (fewer than 50 of them,
\* so that none is evicted) is in the snapshot that get_current_context
\* returns on every handle.
C31_OneContextForAllHandles ==
    lastOp.op = "current_on" =>
        \A j \in 1..Len(pushLog) :
            \E k \in 1..Len(lastOp.snapshot.short_term_memory) :
                lastOp.snapshot.short_term_memory[k] = pushLog[j]

\* C32: the default strategy of the conflict resolver is LastModifiedWins,
\* and under it a local and a remote item sharing an id resolve to the one
\* with the later last_accessed: after the synchronization the store holds
\* the later of the two.
C32_LastModifiedWins ==
    lastOp.op = "sync" =>
        /\ lastOp.strategy = "LastModifiedWins"
        /\ lastOp.remote.id \in DOMAIN db
        /\ db[lastOp.remote.id].last_accessed
              = IF lastOp.remote.last_accessed > lastOp.local.last_accessed
                THEN lastOp.remote.last_accessed
                ELSE lastOp.local.last_accessed

\* C33: under any interleaving of get with prune, a get that returns
\* Some(item) has recorded its read: when it returns, the item is in the
\* store and its access_count is one more than before the update of the
\* access statistics.
C33_ReturnedReadsAreCounted ==
    [][(getPc # NoGet /\ getPc' = NoGet /\ lastOp'.op = "get" /\ lastOp'.found)
        => (/\ getPc.id \in DOMAIN db
            /\ getPc.id \in DOMAIN db'
            /\ db'[getPc.id].access_count = db[getPc.id].access_count + 1)]_vars

\* C34: search is read-only: a call of search changes no stored record, so
\* the access_count and last_accessed of the items it returns are the same
\* after the call as before.
C34_SearchIsReadOnly ==
    [][(lastOp' # lastOp /\ lastOp'.op = "search") => db' = db]_vars

C34_Witness ==
    /\ lastOp.op = "search" /\ lastOp.result.ok
    /\ \E m \in lastOp.result.memories :
          /\ m.id \in DOMAIN db
          /\ getsDone[m.id] >= 1
          /\ db[m.id].access_count = m.access_count
          /\ db[m.id].last_accessed = m.last_accessed

\* C35: prune and get change only the persisted store, never the context
\* state: no step of a prune or of a get changes short_term_memory or any
\* other field of the context, so an item that prune deletes from the store
\* stays in short_term_memory.
C35_PruneAndGetLeaveContext ==
    [][((lastOp' # lastOp /\ lastOp'.op \in {"prune", "get"}) \/ getPc' # getPc)
        => (ctx' = ctx /\ context_sources' = context_sources)]_vars

C35_Witness ==
    /\ lastOp.op = "prune"
    /\ \E d \in lastOp.deleted :
          /\ d.id \notin DOMAIN db
          /\ \E k \in 1..Len(ctx.short_term_memory) : ctx.short_term_memory[k] = d

\* C36: update(source, payload) changes no field of the context state other
\* than last_updated: short_term_memory, current_task, active_applications
\* and every other field are the same after the call as before, whatever
\* the payload, on the manager and on each of its clones.
C36_UpdateChangesOnlyLastUpdated ==
    [][(lastOp' # lastOp /\ lastOp'.op = "update")
        => (/\ [ctx' EXCEPT !.last_updated = ctx.last_updated] = ctx
            /\ Len(clones') = Len(clones)
            /\ \A k \in 1..Len(clones) :
                  [clones'[k].active_context EXCEPT
                      !.last_updated = clones[k].active_context.last_updated]
                    = clones[k].active_context)]_vars

C36_Witness ==
    /\ lastOp.op = "update"
    /\ lastOp.data.current_task = "Write report"
    /\ lastOp.before = 0 /\ ctx.last_updated = 1
    /\ ctx.current_task = "None"
    /\ ctx.active_applications = <<>>
    /\ Len(ctx.short_term_memory) = 1

\* C37: when every item of a batch of at least 10 items has the same
\* access_count (standard deviation zero), the access-pattern check flags
\* no item and does not fail.
C37_EqualCountsFlagNothing ==
    (/\ lastOp.op = "detect_access_anomalies"
     /\ Len(batch) >= MinAccessBatch
     /\ \A i, j \in 1..Len(batch) : batch[i].access_count = batch[j].access_count)
    => (~lastOp.panicked /\ lastOp.result = <<>>)

\* C38: the mean used by the access-pattern check is the exact arithmetic
\* mean of the batch's access counts for every batch of 32-bit counts: the
\* check does not fail, and the sum it divides by the batch size is the sum
\* of the counts, not that sum modulo 2^32.
C38_MeanIsExact ==
    (lastOp.op = "detect_access_anomalies" /\ Len(batch) >= MinAccessBatch)
    => LET access_counts == [j \in 1..Len(batch) |-> batch[j].access_count]
       IN  /\ ~lastOp.panicked
           /\ lastOp.sum = SumOver(InUnits(access_counts), DOMAIN access_counts)

\* C39: EncryptionManager::initialize never replaces an existing master key:
\* once a key is generated no later initialize changes it, so data sealed
\* before a repeated initialize still decrypts to its plaintext afterwards.
C39_InitializeKeepsTheKey ==
    [][/\ master_key # NoKey => master_key' = master_key
       /\ (lastOp' # lastOp /\ lastOp'.op = "open")
             => (lastOp'.result.ok /\ lastOp'.result.plaintext = lastOp'.plaintext)]_vars

C39_Witness ==
    /\ lastOp.op = "open"
    /\ lastOp.held_over_initialize
    /\ lastOp.plaintext = <<72, 105>>
    /\ lastOp.result.ok /\ lastOp.result.plaintext = <<72, 105>>
    /\ \E t \in Tasks : tasks[t].pc = "holding" /\ tasks[t].held_over_initialize
====
